---------------------------- MODULE Spec2Model ----------------------------
(***************************************************************************)
(* QualityGate: the real-time severity engine                              *)
(* (scripts/optimized_severity_analyzer.py), the rule analyzer             *)
(* (scripts/severity_analyzer.py), the CLI runner (scripts/qg_runner.py),  *)
(* the unified hook (hooks/unified_quality_hook.py) and the PreToolUse     *)
(* bridge (hooks/qualitygate_bridge.py).                                   *)
(*                                                                         *)
(* Each of these programs runs as its own operating-system process; the    *)
(* variable proc says which program the modelled process runs.  Elapsed    *)
(* times are integers in microseconds, weights and confidences are         *)
(* integers in units of 0.0001 (One = 1.0).  Counters that only feed the   *)
(* statistics reports (cache hit counts, averages) are not part of the     *)
(* state.                                                                  *)
(***************************************************************************)
EXTENDS Integers, Sequences, FiniteSets, TLC

VARIABLES
    proc,        \* program run by this process (the hook process owns the engine)
    host,        \* "any": a helper that times itself may exceed its own budget
                 \* whenever it runs; "fast": no helper ever does; "steady":
                 \* no helper does, no exception is raised inside the engine,
                 \* and only the 0.002 ms test before the queue is processed
                 \* can go either way; "lagging": as "steady", but that test
                 \* always fails and the queue is never processed; "prompt":
                 \* as "steady", but that test always passes
    environ,     \* os.environ restricted to the bypass variables
    self,        \* the OptimizedSeverityAnalyzer instance (its fields)
    now,         \* time.time() in units of 30 seconds
    ms,          \* int(time.time() * 1000), counted from the start of the process
    pc,          \* position inside analyze_input_optimized ("idle" between calls)
    frame,       \* locals of the analyze_input_optimized call in progress
    last,        \* history: the last finished engine operation
    stability,   \* history: engine state at the end of the last _enter_stability_mode
    rr,          \* qg_runner: last invocation and its RunnerResult / exit
    bridge,      \* QualityGateBridge instance and the last process_event result
    bypass_check \* severity_analyzer.check_bypass_conditions: last return value

vars == <<proc, host, environ, self, now, ms, pc, frame, last, stability, rr, bridge, bypass_check>>

-----------------------------------------------------------------------------
(* Units                                                                    *)

One == 10 * 1000

Min(a, b) == IF a <= b THEN a ELSE b

Max(a, b) == IF a >= b THEN a ELSE b

Range(s) == {s[i] : i \in DOMAIN s}

\* dict.get(key, default) on a function used as a Python dict
Get(d, k, default) == IF k \in DOMAIN d THEN d[k] ELSE default

Severities == <<"CRITICAL", "HIGH", "INFO">>

-----------------------------------------------------------------------------
(* Strings of environment values, and str.lower()                           *)

UpperCase == <<"A","B","C","D","E","F","G","H","I","J","K","L","M",
               "N","O","P","Q","R","S","T","U","V","W","X","Y","Z">>

LowerCase == <<"a","b","c","d","e","f","g","h","i","j","k","l","m",
               "n","o","p","q","r","s","t","u","v","w","x","y","z">>

LowerChar(c) ==
    IF \E i \in DOMAIN UpperCase : UpperCase[i] = c
    THEN LowerCase[CHOOSE i \in DOMAIN UpperCase : UpperCase[i] = c]
    ELSE c

Lower(s) == [i \in DOMAIN s |-> LowerChar(s[i])]

\* an unset variable reads as the empty string (os.environ.get(var, ''))
Unset == << >>

BypassVars == {"BYPASS_DESIGN_HOOK", "QUALITYGATE_DISABLED", "EMERGENCY_BYPASS", "QUALITYGATE_BYPASS"}

TruthyValues == { <<"1">>, <<"t","r","u","e">>, <<"y","e","s">> }

EnvValues ==
    { Unset, <<"1">>, <<"0">>,
      <<"t","r","u","e">>, <<"T","R","U","E">>, <<"T","r","u","e">>,
      <<"y","e","s">>, <<"Y","E","S">>,
      <<"f","a","l","s","e">>, <<"n","o">>,
      <<"d","i","s","a","b","l","e","d">> }

NoEnv == [v \in BypassVars |-> Unset]

\* environments with at most one bypass variable set
Environments == {[NoEnv EXCEPT ![v] = x] : v \in BypassVars, x \in EnvValues}

\* severity_analyzer.check_bypass_conditions
check_bypass_conditions(env) ==
    \E v \in {"BYPASS_DESIGN_HOOK", "QUALITYGATE_DISABLED", "EMERGENCY_BYPASS"} :
        Lower(env[v]) \in TruthyValues

\* QualityGateBridge._check_bypass
_check_bypass(env) ==
    \/ env["BYPASS_DESIGN_HOOK"] = <<"1">>
    \/ env["QUALITYGATE_DISABLED"] = <<"1">>
    \/ env["QUALITYGATE_BYPASS"] = <<"1">>

\* the bypass test of analyze_input_optimized and of UnifiedQualityHook.process_input
EngineBypass(env) ==
    \/ env["BYPASS_DESIGN_HOOK"] = <<"1">>
    \/ env["QUALITYGATE_DISABLED"] = <<"1">>
    \/ env["EMERGENCY_BYPASS"] = <<"1">>

-----------------------------------------------------------------------------
(* Inputs.  An input is a piece of content, named by its text; the tables   *)
(* below give, for each content, the patterns whose regular expression      *)
(* finds a match in it.                                                     *)

Contents ==
    { "",                          \* empty or whitespace-only
      "sudo rm -rf / # TODO",
      "AKIA1234567890ABCDEF",
      "todo: later",
      "TODO <identifier of 600 letters>",
      "bandaid (ja)",              \* the Japanese band-aid phrase, no ASCII word
      "console.log('debug')",
      "const total = sum(items)" }

IsBlank(c) == c = ""

\* patterns of the tiered engine and of the ultra-fast core, searched with
\* re.IGNORECASE (tiered engine)
MatchIgnoreCase(c) ==
    CASE c = "sudo rm -rf / # TODO"  -> {"rm_rf", "sudo_rm", "todo_fixme"}
      [] c = "AKIA1234567890ABCDEF"  -> {"aws_key"}
      [] c = "todo: later"           -> {"todo_fixme"}
      [] c = "TODO <identifier of 600 letters>" -> {"todo_fixme"}
      [] c = "bandaid (ja)"          -> {"bandaid"}
      [] c = "console.log('debug')"  -> {"debug_output"}
      [] c = "DROP DATABASE production" -> {"drop_database"}
      [] OTHER                       -> {}

\* the same patterns searched with re.MULTILINE | re.DOTALL (ultra-fast core):
\* letter case must agree
MatchCaseSensitive(c) ==
    CASE c = "sudo rm -rf / # TODO"  -> {"rm_rf", "sudo_rm", "todo_fixme"}
      [] c = "AKIA1234567890ABCDEF"  -> {"aws_key"}
      [] c = "TODO <identifier of 600 letters>" -> {"todo_fixme"}
      [] c = "bandaid (ja)"          -> {"bandaid"}
      [] c = "console.log('debug')"  -> {"debug_output"}
      [] OTHER                       -> {}


-----------------------------------------------------------------------------
(* scripts/severity_analyzer.py: SeverityAnalyzer                           *)

\* the built-in rules of _load_analysis_rules, in dictionary order
DefaultRules ==
    [CRITICAL |-> <<"api_secret", "aws_key", "google_api_key", "slack_token",
                    "github_pat", "rm_rf", "sudo_rm", "drop_database",
                    "delete_from", "eval_call", "exec_call", "os_system",
                    "subprocess_shell">>,
     HIGH     |-> <<"bandaid_ja", "bandaid_en", "todo_noctx", "fixme_noctx",
                    "xxx_noctx", "localhost_url", "loopback_url", "prod_url",
                    "except_pass", "empty_catch">>,
     INFO     |-> <<"console_log", "print_debug">>]

\* rules converted from a config/patterns.json that holds a regular
\* expression which does not compile, and no INFO section
ConfigRules ==
    [CRITICAL |-> <<"unclosed_group", "rm_rf">>,
     HIGH     |-> <<"todo_noctx">>]

\* config/patterns.json as SeverityAnalyzer.__init__ finds it: missing,
\* unreadable, not valid JSON, valid JSON without any severity section, or
\* holding the sections of ConfigRules
ConfigFiles == {"missing", "unreadable", "malformed", "no_sections", "with_invalid_regex"}

\* _convert_config_to_patterns: a severity that is not in the file gets no
\* entry in the result
_convert_config_to_patterns(config) ==
    IF config = "no_sections" THEN << >> ELSE ConfigRules

\* _load_analysis_rules
_load_analysis_rules(config) ==
    IF config \in {"missing", "unreadable", "malformed"} THEN DefaultRules
    ELSE _convert_config_to_patterns(config)

RuleSets == {_load_analysis_rules(config) : config \in ConfigFiles}

\* re.compile(pattern_str, re.IGNORECASE | re.MULTILINE) succeeds
Compiles(p) == p # "unclosed_group"

\* rules whose compiled expression (re.IGNORECASE | re.MULTILINE) finds a match
RuleMatches(c) ==
    CASE c = "sudo rm -rf / # TODO"  -> {"rm_rf", "sudo_rm", "todo_noctx"}
      [] c = "AKIA1234567890ABCDEF"  -> {"aws_key"}
      [] c = "todo: later"           -> {"todo_noctx"}
      [] c = "TODO <identifier of 600 letters>" -> {"todo_noctx"}
      [] c = "bandaid (ja)"          -> {"bandaid_ja"}
      [] c = "console.log('debug')"  -> {"console_log"}
      [] OTHER                       -> {}

NoFinding == [severity |-> "None", pattern |-> ""]

\* the first matching rule of one severity when a rule that does not compile
\* ends the scan of the severity
AbortingRuleHit(rules, content) ==
    LET hits == {i \in DOMAIN rules :
                    /\ rules[i] \in RuleMatches(content)
                    /\ \A j \in 1..i : Compiles(rules[j])}
    IN  IF hits = {} THEN ""
        ELSE rules[CHOOSE i \in hits : \A j \in hits : i <= j]

\* the last rule of one severity that compiles and matches, or "" if none
LastRuleHit(rules, content) ==
    LET hits == {i \in DOMAIN rules : Compiles(rules[i]) /\ rules[i] \in RuleMatches(content)}
    IN  IF hits = {} THEN ""
        ELSE rules[CHOOSE i \in hits : \A j \in hits : i >= j]

\* the first rule of one severity that compiles and matches, or "" if none
FirstRuleHit(rules, content) ==
    LET hits == {i \in DOMAIN rules : Compiles(rules[i]) /\ rules[i] \in RuleMatches(content)}
    IN  IF hits = {} THEN ""
        ELSE rules[CHOOSE i \in hits : \A j \in hits : i <= j]

\* SeverityAnalyzer.analyze
RECURSIVE analyze_from(_, _, _)
analyze_from(analysis_rules, content, k) ==
    IF k > Len(Severities) THEN NoFinding
    ELSE LET severity == Severities[k]
             hit == FirstRuleHit(Get(analysis_rules, severity, << >>), content)
         IN  IF hit # "" THEN [severity |-> severity, pattern |-> hit]
             ELSE analyze_from(analysis_rules, content, k + 1)

analyze(analysis_rules, content) == analyze_from(analysis_rules, content, 1)

-----------------------------------------------------------------------------
(* scripts/qg_runner.py                                                     *)

\* command lines: --mode present and valid or not, --source, --file given or
\* not, --warn-only
CommandLines ==
    [mode : {"edit", "bash", "(missing)"}, source : {"stdin", "file"},
     file_given : BOOLEAN, warn_only : BOOLEAN]

\* what the process meets while running: the analyzer module fails to import,
\* the file or the standard input cannot be read, the analysis raises
RunnerFaults ==
    [import_fails : BOOLEAN, read_fails : BOOLEAN, analysis_raises : BOOLEAN]

Returned(code, status, severity, block) ==
    [outcome |-> "return", code |-> code, status |-> status,
     severity |-> severity, pattern |-> "", block |-> block, printed |-> TRUE]

\* the process ended by an exception leaving main: SystemExit(2) from
\* argparse, or an uncaught error (the interpreter exits with 1)
Raised(exc, code) ==
    [outcome |-> exc, code |-> code, status |-> "", severity |-> "None",
     pattern |-> "", block |-> FALSE, printed |-> FALSE]

\* the block of main after a finding was made
runner_verdict(finding, warn_only) ==
    LET is_critical == finding.severity = "CRITICAL"
        rr_ == IF is_critical /\ ~warn_only
               THEN Returned(2, "blocked", finding.severity, TRUE)
               ELSE Returned(0, IF is_critical THEN "passed_with_warnings" ELSE "passed",
                             finding.severity, FALSE)
    IN  [rr_ EXCEPT !.pattern = finding.pattern]

\* qg_runner.main
main(argv, content, faults, analysis_rules) ==
    IF argv.mode = "(missing)" THEN Raised("SystemExit", 2)
    ELSE IF faults.import_fails THEN Returned(0, "error", "None", FALSE)
    ELSE IF argv.source = "stdin" /\ faults.read_fails THEN Raised("exception", 1)
    ELSE IF argv.source = "file" /\ ~argv.file_given THEN Returned(0, "error", "None", FALSE)
    ELSE IF argv.source = "file" /\ faults.read_fails THEN Returned(0, "error", "None", FALSE)
    ELSE IF IsBlank(content) THEN Returned(0, "no_content", "None", FALSE)
    ELSE IF faults.analysis_raises THEN Returned(0, "error", "None", FALSE)
    ELSE LET finding == analyze(analysis_rules, content)
         IN  IF finding = NoFinding THEN Returned(0, "passed", "None", FALSE)
             ELSE runner_verdict(finding, argv.warn_only)

RunnerIdle ==
    [ran |-> FALSE, argv |-> [mode |-> "edit", source |-> "stdin", file_given |-> FALSE, warn_only |-> FALSE],
     content |-> "", faults |-> [import_fails |-> FALSE, read_fails |-> FALSE, analysis_raises |-> FALSE],
     config |-> "missing", analysis_rules |-> DefaultRules, result |-> Raised("", 0)]

\* one run of the command line program
RunnerMain ==
    /\ proc = "qg_runner" /\ ~rr.ran
    /\ \E argv \in CommandLines, content \in Contents, faults \in RunnerFaults,
          config \in ConfigFiles :
          LET analysis_rules == _load_analysis_rules(config)
          IN  rr' = [ran |-> TRUE, argv |-> argv, content |-> content, faults |-> faults,
                     config |-> config, analysis_rules |-> analysis_rules,
                     result |-> main(argv, content, faults, analysis_rules)]
    /\ UNCHANGED <<proc, host, environ, self, now, ms, pc, frame, last, stability, bridge, bypass_check>>

-----------------------------------------------------------------------------
(* hooks/qualitygate_bridge.py and severity_analyzer.check_bypass_conditions *)

\* what the child hook process does: its return code, a timeout, or a
\* failure to start
ChildOutcomes == {"rc0", "rc1", "rc2", "rc3", "timeout", "exception"}

\* Claude Code tools: two mapped ones and one without a hook script
Tools == {"Edit", "Bash", "Read"}

HasHookScript(tool) == tool \in {"Edit", "Bash"}

\* a bridge that blocks on every return code other than 0
execute_hook_blocking_on_nonzero(child) == child \in {"rc1", "rc2", "rc3"}

\* QualityGateBridge._execute_qualitygate_hook: should_block
_execute_qualitygate_hook(child) == child \in {"rc1", "rc2"}

\* QualityGateBridge.process_event
process_event(b, tool, script_exists, content, child) ==
    IF b.bypass_enabled THEN [status |-> "bypassed", block |-> FALSE]
    ELSE IF ~HasHookScript(tool) \/ ~script_exists THEN [status |-> "no_hook", block |-> FALSE]
    ELSE IF IsBlank(content) THEN [status |-> "no_content", block |-> FALSE]
    ELSE LET should_block == _execute_qualitygate_hook(child)
         IN  [status |-> IF should_block THEN "blocked" ELSE "passed", block |-> should_block]

BridgeIdle == [bypass_enabled |-> FALSE, events |-> 0, tool |-> "", content |-> "",
               script_exists |-> FALSE, child |-> "", result |-> [status |-> "", block |-> FALSE]]

\* QualityGateBridge.__init__: the bypass variables are read once
BridgeInit(env) == [BridgeIdle EXCEPT !.bypass_enabled = _check_bypass(env)]

ProcessEvent ==
    /\ proc = "qualitygate_bridge" /\ bridge.events = 0
    /\ \E tool \in Tools, script_exists \in BOOLEAN, content \in Contents, child \in ChildOutcomes :
          bridge' = [bridge EXCEPT !.events = 1, !.tool = tool, !.content = content, !.child = child,
                                   !.script_exists = script_exists,
                                   !.result = process_event(bridge, tool, script_exists, content, child)]
    /\ UNCHANGED <<proc, host, environ, self, now, ms, pc, frame, last, stability, rr, bypass_check>>

CheckIdle == [called |-> FALSE, returned |-> FALSE]

CheckBypassConditions ==
    /\ proc = "severity_analyzer" /\ ~bypass_check.called
    /\ bypass_check' = [called |-> TRUE, returned |-> check_bypass_conditions(environ)]
    /\ UNCHANGED <<proc, host, environ, self, now, ms, pc, frame, last, stability, rr, bridge>>

-----------------------------------------------------------------------------
(* scripts/optimized_severity_analyzer.py: construction and recovery        *)

\* self.tier_constraints as set by __init__ (microseconds)
DefaultTierConstraints ==
    [HOOK_INTEGRATION |-> 50, ULTRA_CRITICAL |-> 100, CRITICAL_FAST |-> 300,
     HIGH_NORMAL |-> 800, TOTAL_BUDGET |-> 1500]

\* self.tier_constraints as set by _enter_stability_mode
RelaxedTierConstraints ==
    [ULTRA_CRITICAL |-> 500, CRITICAL_FAST |-> 1000, HIGH_NORMAL |-> 2000,
     TOTAL_BUDGET |-> 5000]

\* self.tiered_patterns, each tier in dictionary order
tiered_patterns ==
    [ULTRA_CRITICAL |-> <<"api_secret", "aws_key", "rm_rf", "sudo_rm">>,
     CRITICAL_FAST  |-> <<"bandaid", "todo_fixme", "lacuna", "feature_reduction">>]

\* the four patterns of tier 1
UltraCriticalPatterns == Range(tiered_patterns["ULTRA_CRITICAL"])

\* _preload_patterns_to_memory
PreloadedPatterns ==
    [CRITICAL |-> <<"api_secret", "aws_key", "rm_rf", "sudo_rm">>,
     HIGH     |-> <<"bandaid", "todo_fixme">>,
     INFO     |-> <<"debug_output">>]

\* _precompile_critical_regex: the CRITICAL and HIGH patterns in memory
PrecompiledPatterns(memory) ==
    Range(Get(memory, "CRITICAL", << >>)) \cup Range(Get(memory, "HIGH", << >>))

\* self.tiered_learning_config
tiered_learning_config ==
    [ULTRA_CRITICAL |-> [learning_rate_permille |-> 1,  confidence_threshold |-> (95 * One) \div 100, max_queue_size |-> 5],
     CRITICAL_FAST  |-> [learning_rate_permille |-> 5,  confidence_threshold |-> (85 * One) \div 100, max_queue_size |-> 20],
     HIGH_NORMAL    |-> [learning_rate_permille |-> 10, confidence_threshold |-> (70 * One) \div 100, max_queue_size |-> 50]]

\* the weights written by _initialize_lightweight_learning when no file exists
DefaultLearningWeights ==
    [pattern_confidence |-> [CRITICAL |-> One, HIGH |-> (8 * One) \div 10, INFO |-> (6 * One) \div 10]]

\* config/pattern_weights.json as found at construction: absent, holding
\* weights inside [0, 1], holding weights outside [0, 1], or not valid JSON
WeightFiles == {"absent", "in_range", "out_of_range", "malformed"}

WeightFileContent(f) ==
    CASE f = "in_range" ->
            [pattern_confidence |-> [CRITICAL |-> One, HIGH |-> One \div 2, INFO |-> (6 * One) \div 10],
             pattern_specific   |-> [rm_rf |-> One \div 2]]
      [] f = "tuned" ->
            [pattern_confidence |-> [CRITICAL |-> One, HIGH |-> (9 * One) \div 10, INFO |-> (72 * One) \div 100]]
      [] f = "out_of_range" ->
            [pattern_confidence |-> [CRITICAL |-> (15 * One) \div 10, HIGH |-> 0 - (One \div 5), INFO |-> (6 * One) \div 10]]
      [] OTHER -> DefaultLearningWeights

\* PerformanceOptimizer.clear_cache
EmptyOptimizer == [pattern_cache |-> << >>, skip_cache |-> {}]

\* OptimizedSeverityAnalyzer.clear_all_caches
clear_all_caches(s) ==
    [s EXCEPT !.patterns_cache = FALSE,
              !.optimizer = EmptyOptimizer,
              !.learning_weights = << >>,
              !.ultrafast_patterns_memory = << >>,
              !.ultrafast_compiled_regex = {},
              !.learning_queue = << >>,
              !.learning_cache = << >>,
              !.background_weights = << >>,
              !.background_updates = 0,
              !.data_buffer = 0,
              !.metrics_buffer = 0,
              !.hook_integration_latency = 0]

\* _initialize_ultrafast_core; fast: the measured time is within 0.1 ms
_initialize_ultrafast_core(s, fast) ==
    [s EXCEPT !.ultrafast_patterns_memory = PreloadedPatterns,
              !.ultrafast_compiled_regex = s.ultrafast_compiled_regex \cup PrecompiledPatterns(PreloadedPatterns),
              !.ultrafast_enabled = fast]

\* enable_ultrafast_mode
enable_ultrafast_mode(s, fast) ==
    IF ~s.ultrafast_enabled THEN _initialize_ultrafast_core(s, fast) ELSE s

\* a stability mode that leaves the ultra-fast core as it is
enter_stability_mode_keeping_core(s) ==
    [clear_all_caches([s EXCEPT !.background_learning_enabled = FALSE,
                                !.realtime_integration_enabled = FALSE,
                                !.adaptive_optimization_enabled = FALSE])
        EXCEPT !.tier_constraints = RelaxedTierConstraints]

\* _enter_stability_mode
_enter_stability_mode(s) ==
    [clear_all_caches([s EXCEPT !.ultrafast_enabled = FALSE,
                                !.background_learning_enabled = FALSE,
                                !.realtime_integration_enabled = FALSE,
                                !.adaptive_optimization_enabled = FALSE])
        EXCEPT !.tier_constraints = RelaxedTierConstraints]

\* error_recovery_system['recovery_strategies'].get(error_type, 'default_fallback')
recovery_strategy(error_type) ==
    CASE error_type = "memory_overflow"           -> "reduce_cache_size"
      [] error_type = "timeout_violation"         -> "switch_to_ultrafast_mode"
      [] error_type = "pattern_compilation_error" -> "fallback_to_basic_patterns"
      [] error_type = "hook_integration_failure"  -> "bypass_hook_temporarily"
      [] OTHER                                    -> "default_fallback"

\* _execute_recovery_strategy; fast is the timing of a re-initialised ultra-fast
\* core.  learning_cache is kept in insertion order, as a Python dict is.
_execute_recovery_strategy(s, strategy, fast) ==
    CASE strategy = "reduce_cache_size" ->
            [s EXCEPT !.patterns_cache = FALSE,
                      !.learning_cache = IF Len(@) > 50 THEN SubSeq(@, 1, 50) ELSE @]
      [] strategy = "switch_to_ultrafast_mode" ->
            enable_ultrafast_mode(s, fast)
      [] strategy = "fallback_to_basic_patterns" ->
            [s EXCEPT !.ultrafast_enabled = FALSE, !.background_learning_enabled = FALSE]
      [] strategy = "bypass_hook_temporarily" -> s
      [] OTHER -> clear_all_caches(s)

\* one unit of the clock now is 30 seconds; the recovery window of 60 seconds
\* is WindowTicks units
WindowTicks == 60 \div 30

max_recovery_attempts == 3

\* recent_recoveries of _activate_error_recovery
recent_recoveries(s, t) ==
    {i \in DOMAIN s.recovery_history : t - s.recovery_history[i].timestamp < WindowTicks}

\* the activation enters stability mode instead of running a strategy
EntersStabilityMode(s, t) ==
    Cardinality(recent_recoveries(s, t)) >= max_recovery_attempts

\* _activate_error_recovery at time t; fault is "none", "strategy" (the
\* strategy raises and reports failure) or "activation" (the activation itself
\* raises before doing anything; the exception is caught and printed)
_activate_error_recovery(s, error_type, t, fast, fault) ==
    IF fault = "activation" THEN s
    ELSE IF EntersStabilityMode(s, t) THEN _enter_stability_mode(s)
    ELSE LET strategy == recovery_strategy(error_type)
             after == IF fault = "strategy" THEN s
                      ELSE _execute_recovery_strategy(s, strategy, fast)
         IN  [after EXCEPT !.recovery_history =
                  Append(after.recovery_history,
                         [error_type |-> error_type, strategy |-> strategy,
                          success |-> fault # "strategy", timestamp |-> t])]

-----------------------------------------------------------------------------
(* scripts/optimized_severity_analyzer.py: weights and learning             *)

\* thresholds of analyze_input_optimized and _tiered_pattern_analysis
Threshold(severity) ==
    CASE severity = "CRITICAL" -> (8 * One) \div 10
      [] severity = "HIGH"     -> (6 * One) \div 10
      [] OTHER                 -> (4 * One) \div 10

\* _apply_lightweight_weights with confidence 1.0: the returned value
_apply_lightweight_weights(s, pattern, severity) ==
    IF ~s.learning_enabled THEN One
    ELSE LET base_weight == Get(Get(s.learning_weights, "pattern_confidence", << >>), severity, One)
             pattern_weight == Get(Get(s.learning_weights, "pattern_specific", << >>), pattern, One)
             weighted_confidence == (base_weight * pattern_weight) \div One
         IN  Min(weighted_confidence, One)

\* index of the learning_cache entry with this key, 0 if there is none
CacheIndex(cache, key) ==
    IF \E i \in DOMAIN cache : cache[i].key = key
    THEN CHOOSE i \in DOMAIN cache : cache[i].key = key
    ELSE 0

\* index of the entry with the smallest last_updated (the first one on a tie)
OldestIndex(cache) ==
    CHOOSE i \in DOMAIN cache :
        \A j \in DOMAIN cache :
            \/ cache[i].last_updated < cache[j].last_updated
            \/ (cache[i].last_updated = cache[j].last_updated /\ i <= j)

RemoveAt(q, i) == SubSeq(q, 1, i - 1) \o SubSeq(q, i + 1, Len(q))

\* an _update_tiered_cache without the size limit
update_tiered_cache_unlimited(cache, pattern, tier, weight, t) ==
    LET key == <<tier, pattern>>
        entry == [key |-> key, weight |-> weight, last_updated |-> t]
        i == CacheIndex(cache, key)
    IN  IF i = 0 THEN Append(cache, entry) ELSE [cache EXCEPT ![i] = entry]

\* _update_tiered_cache at time t
_update_tiered_cache(cache, pattern, tier, weight, t) ==
    LET key == <<tier, pattern>>
        entry == [key |-> key, weight |-> weight, last_updated |-> t]
        i == CacheIndex(cache, key)
        updated == IF i = 0 THEN Append(cache, entry) ELSE [cache EXCEPT ![i] = entry]
    IN  IF Len(updated) > 100 THEN RemoveAt(updated, OldestIndex(updated)) ELSE updated

\* an _update_pattern_weights_background that stores the observed confidence
\* as it is
update_pattern_weights_unsmoothed(s, task, t) ==
    LET tier_config == tiered_learning_config[task.tier]
        new_weight == Min(task.confidence, One)
    IN  IF task.confidence < tier_config.confidence_threshold THEN s
        ELSE [s EXCEPT !.background_weights =
                           [k \in DOMAIN @ \cup {task.pattern} |->
                               IF k = task.pattern THEN new_weight ELSE @[k]],
                       !.learning_cache =
                           _update_tiered_cache(@, task.pattern, task.tier, new_weight, t)]

\* _update_pattern_weights_background at time t
_update_pattern_weights_background(s, task, t) ==
    LET tier_config == tiered_learning_config[task.tier]
        current_weight == Get(s.background_weights, task.pattern, One)
        performance_factor == Min(task.confidence, One)
        new_weight == ((1000 - tier_config.learning_rate_permille) * current_weight
                       + tier_config.learning_rate_permille * performance_factor) \div 1000
    IN  IF task.confidence < tier_config.confidence_threshold THEN s
        ELSE [s EXCEPT !.background_weights =
                           [k \in DOMAIN @ \cup {task.pattern} |->
                               IF k = task.pattern THEN new_weight ELSE @[k]],
                       !.learning_cache =
                           _update_tiered_cache(@, task.pattern, task.tier, new_weight, t)]

\* _process_background_learning_queue at time t: up to n tasks are popped
\* from the front (n is min(3, len) unless the 0.3 ms check breaks the loop)
RECURSIVE _process_background_learning_queue(_, _, _)
_process_background_learning_queue(s, n, t) ==
    IF n = 0 \/ s.learning_queue = << >> \/ ~s.background_learning_enabled THEN s
    ELSE LET task == Head(s.learning_queue)
             popped == [s EXCEPT !.learning_queue = Tail(@)]
             applied == IF task.type = "pattern_update"
                        THEN [_update_pattern_weights_background(popped, task, t)
                                 EXCEPT !.background_updates = @ + 1]
                        ELSE popped
         IN  _process_background_learning_queue(applied, n - 1, t)

\* _apply_background_learned_weights after its queue processing: the returned
\* confidence; over_budget: its 0.005 ms check fails
learned_confidence(s, pattern, severity, base_confidence, over_budget) ==
    IF ~s.background_learning_enabled \/ over_budget THEN base_confidence
    ELSE LET learned_weight == Get(s.background_weights, pattern, One)
             tier == IF severity \in {"CRITICAL", "HIGH"} THEN "CRITICAL_FAST" ELSE "HIGH_NORMAL"
             i == CacheIndex(s.learning_cache, <<tier, pattern>>)
             final_weight == IF i # 0 THEN (learned_weight + s.learning_cache[i].weight) \div 2
                             ELSE learned_weight
         IN  Min((base_confidence * final_weight) \div One, One)

LearningTier(severity) ==
    CASE severity = "CRITICAL" -> "ULTRA_CRITICAL"
      [] severity = "HIGH"     -> "CRITICAL_FAST"
      [] OTHER                 -> "HIGH_NORMAL"

\* a _background_pattern_learning that appends whatever the queue holds
background_pattern_learning_unbounded(s, pattern, severity, confidence, slow, t) ==
    IF ~s.background_learning_enabled THEN s
    ELSE LET tier == LearningTier(severity)
             learning_data == [type |-> "pattern_update", pattern |-> pattern,
                               severity |-> severity, confidence |-> confidence,
                               timestamp |-> t, tier |-> tier]
         IN  [s EXCEPT !.learning_queue = Append(@, learning_data),
                       !.background_learning_enabled = ~slow]

\* _background_pattern_learning at time t; slow: its 0.01 ms check fails
_background_pattern_learning(s, pattern, severity, confidence, slow, t) ==
    IF ~s.background_learning_enabled THEN s
    ELSE LET tier == LearningTier(severity)
             learning_data == [type |-> "pattern_update", pattern |-> pattern,
                               severity |-> severity, confidence |-> confidence,
                               timestamp |-> t, tier |-> tier]
             max_queue == tiered_learning_config[tier].max_queue_size
         IN  [s EXCEPT !.learning_queue = IF Len(@) < max_queue THEN Append(@, learning_data) ELSE @,
                       !.background_learning_enabled = ~slow]

\* the task queued by _schedule_background_initialization
InitializationTask ==
    [type |-> "initialization", pattern |-> "", severity |-> "", confidence |-> 0,
     timestamp |-> 0, tier |-> ""]

\* adaptive_learning_engine['learning_modes']['false_positive_reduction']
\* ['adjustment_factor'], in tenths
adjustment_factor_tenths == 9

\* _handle_false_positive_feedback: the weights afterwards
_handle_false_positive_feedback(s, pattern_id) ==
    IF pattern_id \in DOMAIN s.background_weights
    THEN [s EXCEPT !.background_weights[pattern_id] = (@ * adjustment_factor_tenths) \div 10]
    ELSE s

FeedbackTypes == {"false_positive", "false_negative", "accuracy_improvement"}

\* adapt_learning_from_feedback with an empty feedback_data: only a false
\* positive about a pattern that has a learned weight succeeds
adapt_learning_from_feedback(s, pattern_id, feedback_type) ==
    IF ~s.pattern_generation_enabled THEN s
    ELSE IF feedback_type = "false_positive" /\ pattern_id \in DOMAIN s.background_weights
    THEN [_handle_false_positive_feedback(s, pattern_id) EXCEPT !.adaptive_improvements = @ + 1]
    ELSE s

-----------------------------------------------------------------------------
(* scripts/optimized_severity_analyzer.py: real-time integration            *)

\* _update_hook_data_stream: data_buffer holds at most buffer_size_limit
\* entries, the newest 50 are kept when it overflows (buffers are lengths)
_update_hook_data_stream(s) ==
    IF ~s.realtime_integration_enabled THEN s
    ELSE [s EXCEPT !.data_buffer = IF @ + 1 > 100 THEN 50 ELSE @ + 1]

\* _update_live_metrics; due: the update interval of 10 ms has passed
_update_live_metrics(s, due) ==
    IF due /\ s.metrics_buffer > 1000 THEN [s EXCEPT !.metrics_buffer = 500] ELSE s

\* _record_metrics_datapoint
_record_metrics_datapoint(s) ==
    [s EXCEPT !.metrics_buffer = IF @ + 1 > 2000 THEN 1000 ELSE @ + 1]

\* _estimate_memory_usage in kilobytes: the cached configuration (about 2 KB)
\* and the resident patterns (about 1 KB) as strings, 1 KB for each queued
\* task, 0.5 KB for each buffered data point
_estimate_memory_usage(s) ==
    (IF s.patterns_cache THEN 2 ELSE 0)
    + (IF DOMAIN s.ultrafast_patterns_memory # {} THEN 1 ELSE 0)
    + Len(s.learning_queue) + (s.data_buffer \div 2)

\* the reasons found by _adaptive_performance_optimization: more than 80% of
\* the 50 MB target in use, last latency above 1.5 times 0.05 ms
optimization_reasons(s) ==
    (IF _estimate_memory_usage(s) * 100 > 80 * 50 * 1024 THEN {"memory_pressure"} ELSE {})
    \cup (IF s.hook_integration_latency > 75 THEN {"latency_violation"} ELSE {})

\* the n entries that come first when the cache is sorted by last_updated
\* (a stable sort), kept in dictionary order
KeepOldest(cache, n) ==
    LET Before(j, i) == \/ cache[j].last_updated < cache[i].last_updated
                        \/ (cache[j].last_updated = cache[i].last_updated /\ j < i)
        Keep(e) == \E i \in DOMAIN cache :
                      /\ cache[i] = e
                      /\ Cardinality({j \in DOMAIN cache : Before(j, i)}) < n
    IN  SelectSeq(cache, Keep)

\* _execute_adaptive_optimizations; fast is the timing of a re-initialised
\* ultra-fast core
_execute_adaptive_optimizations(s, reasons, fast) ==
    LET s1 == IF "memory_pressure" \in reasons
              THEN [s EXCEPT !.learning_cache =
                                IF Len(@) > 20 THEN KeepOldest(@, (Len(@) * 7) \div 10) ELSE @,
                             !.data_buffer = IF @ > 50 THEN 25 ELSE @]
              ELSE s
    IN  IF "latency_violation" \in reasons
        THEN [enable_ultrafast_mode(s1, fast) EXCEPT !.background_learning_enabled = FALSE]
        ELSE s1

\* _adaptive_performance_optimization; slow: its own 0.1 ms check fails
_adaptive_performance_optimization(s, fast, slow) ==
    IF ~s.adaptive_optimization_enabled THEN s
    ELSE [_execute_adaptive_optimizations(s, optimization_reasons(s), fast)
            EXCEPT !.adaptive_optimization_enabled = ~slow]

\* Step 0 of analyze_input_optimized
Step0(s, due, fast, slow) ==
    IF ~s.realtime_integration_enabled THEN s
    ELSE _adaptive_performance_optimization(
             _update_live_metrics(_update_hook_data_stream(s), due), fast, slow)

-----------------------------------------------------------------------------
(* scripts/optimized_severity_analyzer.py: the tiered engine and the        *)
(* ultra-fast core                                                          *)

\* time readings that tell the outcomes of the comparisons with the given
\* limits apart; floor is the latest reading of the same clock
Readings(floor, limits) ==
    IF host \in {"steady", "lagging", "prompt"} THEN {floor}
    ELSE {floor} \cup {l + 1 : l \in {x \in limits : x + 1 > floor}}

\* Scan of one tier or of one severity list.  patterns: the list in order;
\* found: the patterns whose search succeeds; enabled: learning_enabled on
\* entry; slow: the first _apply_lightweight_weights call of this scan
\* exceeds learning_max_time_ms and switches learning off for the later ones.
\* confidence of the k-th pattern of the list
ScanConfidence(s, patterns, found, severity, slow, k) ==
    LET earlier == {j \in 1..(k - 1) : patterns[j] \in found}
    IN  IF slow /\ earlier # {} THEN One
        ELSE _apply_lightweight_weights(s, patterns[k], severity)

\* index of the first pattern that is found with a confidence at or above the
\* threshold of the severity, 0 if there is none
ScanHit(s, patterns, found, severity, slow) ==
    LET hits == {k \in DOMAIN patterns :
                    /\ patterns[k] \in found
                    /\ ScanConfidence(s, patterns, found, severity, slow, k) >= Threshold(severity)}
    IN  IF hits = {} THEN 0 ELSE CHOOSE k \in hits : \A j \in hits : k <= j

\* TRUE when the scan called _apply_lightweight_weights at least once
ScanApplied(patterns, found) == \E k \in DOMAIN patterns : patterns[k] \in found

\* number of patterns searched by the scan
ScanTested(patterns, hit) == IF hit = 0 THEN Len(patterns) ELSE hit

\* _tiered_pattern_analysis with the reading elapsed at its entry
_tiered_pattern_analysis(s, content, elapsed, slow) ==
    LET found == MatchIgnoreCase(content)
        tier1 == tiered_patterns["ULTRA_CRITICAL"]
        tier2 == tiered_patterns["CRITICAL_FAST"]
        run1 == elapsed < s.tier_constraints["ULTRA_CRITICAL"]
        run2 == elapsed < s.tier_constraints["CRITICAL_FAST"]
        hit1 == IF run1 THEN ScanHit(s, tier1, found, "CRITICAL", slow) ELSE 0
        applied1 == run1 /\ ScanApplied(tier1, found)
        \* learning is off in tier 2 if tier 1 had the slow call
        s2 == [s EXCEPT !.learning_enabled = @ /\ ~(slow /\ applied1)]
        hit2 == IF run2 THEN ScanHit(s2, tier2, found, "HIGH", slow /\ ~applied1) ELSE 0
        applied2 == run2 /\ ScanApplied(tier2, found)
        tested1 == IF run1 THEN ScanTested(tier1, hit1) ELSE 0
        tested2 == IF run2 THEN ScanTested(tier2, hit2) ELSE 0
    IN  IF elapsed > s.tier_constraints["TOTAL_BUDGET"]
        THEN [verdict |-> "TIMEOUT", tested |-> 0, learning_enabled |-> s.learning_enabled]
        ELSE IF hit1 # 0
        THEN [verdict |-> "CRITICAL", tested |-> tested1, learning_enabled |-> s2.learning_enabled]
        ELSE IF hit2 # 0
        THEN [verdict |-> "HIGH", tested |-> tested1 + tested2,
              learning_enabled |-> s2.learning_enabled /\ ~(slow /\ applied2)]
        ELSE [verdict |-> "CONTINUE", tested |-> tested1 + tested2,
              learning_enabled |-> s2.learning_enabled /\ ~(slow /\ applied2)]

\* _ultrafast_pattern_match: the first pattern of the severity, in memory
\* order, whose search succeeds ("" if none).  Precompiled expressions and
\* the dynamically compiled ones use the same flags.
_ultrafast_pattern_match(s, content, severity) ==
    LET severity_patterns == Get(s.ultrafast_patterns_memory, severity, << >>)
        found == {k \in DOMAIN severity_patterns : severity_patterns[k] \in MatchCaseSensitive(content)}
    IN  IF ~s.ultrafast_enabled \/ found = {} THEN ""
        ELSE severity_patterns[CHOOSE k \in found : \A j \in found : k <= j]

\* number of patterns searched by _ultrafast_pattern_match
UltrafastTested(s, content, severity) ==
    LET severity_patterns == Get(s.ultrafast_patterns_memory, severity, << >>)
        found == {k \in DOMAIN severity_patterns : severity_patterns[k] \in MatchCaseSensitive(content)}
    IN  IF ~s.ultrafast_enabled THEN 0
        ELSE IF found = {} THEN Len(severity_patterns)
        ELSE CHOOSE k \in found : \A j \in found : k <= j

-----------------------------------------------------------------------------
(* scripts/performance_optimizer.py and the fallback engine                 *)

\* PerformanceOptimizer.is_likely_safe_content: blank content is safe; content
\* that holds a danger keyword ('sudo', 'rm', 'AKIA', 'TODO', 'console.log',
\* ...) is not; other content is safe when it is ASCII, shorter than 50
\* characters and of one of the three safe shapes (letters, digits, blanks,
\* '-', '_', '.' only; a leading ls/cd/pwd/echo/cat; a plain assignment)
is_likely_safe_content(content) ==
    LET danger == content \in {"sudo rm -rf / # TODO", "sudo ls", "AKIA1234567890ABCDEF",
                               "todo: later", "TODO <identifier of 600 letters>",
                               "console.log('debug')"}
        short_ascii == content \notin {"bandaid (ja)", "TODO <identifier of 600 letters>"}
        safe_shape == content \in {"DROP DATABASE production"}
    IN  IsBlank(content) \/ (~danger /\ short_ascii /\ safe_shape)

\* PerformanceOptimizer.fast_pattern_match: first pattern of the list whose
\* expression, compiled with re.IGNORECASE, is found ("" if none)
fast_pattern_match(content, patterns) ==
    LET found == {k \in DOMAIN patterns : patterns[k] \in MatchIgnoreCase(content)}
    IN  IF found = {} THEN "" ELSE patterns[CHOOSE k \in found : \A j \in found : k <= j]

\* PerformanceOptimizer.analyze_with_cache: the pattern returned and the
\* optimizer afterwards
analyze_with_cache(o, content, patterns, severity) ==
    LET cache_key == <<content, severity>>
        pattern == fast_pattern_match(content, patterns)
    IN  IF content \in o.skip_cache THEN [pattern |-> "", optimizer |-> o, searched |-> FALSE]
        ELSE IF cache_key \in DOMAIN o.pattern_cache
        THEN [pattern |-> o.pattern_cache[cache_key], optimizer |-> o, searched |-> FALSE]
        ELSE IF is_likely_safe_content(content)
        THEN [pattern |-> "", optimizer |-> [o EXCEPT !.skip_cache = @ \cup {content}], searched |-> FALSE]
        ELSE [pattern |-> pattern,
              optimizer |-> [o EXCEPT !.pattern_cache =
                                [k \in DOMAIN @ \cup {cache_key} |-> IF k = cache_key THEN pattern ELSE @[k]]],
              searched |-> TRUE]

\* the size above which the fallback engine scans a reduced view
size_threshold == 1000

\* important_keywords of optimize_for_size that occur in a text, in list order,
\* each with the offset of its first occurrence ('rm -rf', 'sudo', 'TODO')
KeywordOffsets(text) ==
    CASE text = "sudo rm -rf / # TODO" -> <<5, 0, 16>>
      [] text = "todo: later"          -> <<0>>
      [] OTHER                         -> << >>

\* the parts of a long document that optimize_for_size joins with blanks: the
\* first 500 characters, 50 characters on either side of the first occurrence
\* of every keyword, the last 200 characters.  A document is a filler without
\* keyword or pattern that holds one text at the offsets at.
Pieces(doc) ==
    LET first == CHOOSE a \in doc.at : \A b \in doc.at : a <= b
        offsets == IF doc.at = {} THEN << >> ELSE KeywordOffsets(doc.text)
        window(i) == [start |-> Max(0, first + offsets[i] - 50),
                      end   |-> Min(doc.length, first + offsets[i] + 50)]
    IN  <<[start |-> 0, end |-> Min(500, doc.length)]>>
        \o [i \in 1..Len(offsets) |-> window(i)]
        \o (IF doc.length > 200 THEN <<[start |-> doc.length - 200, end |-> doc.length]>>
            ELSE << >>)

\* where a piece begins in the joined string
PieceStart(pieces, i) ==
    LET before[j \in 0..(i - 1)] ==
            IF j = 0 THEN 0 ELSE before[j - 1] + (pieces[j].end - pieces[j].start) + 1
    IN  before[i - 1]

\* PerformanceOptimizer.optimize_for_size: the joined pieces cut at max_length,
\* with the offsets at which the text is still whole
optimize_for_size(doc, max_length) ==
    IF doc.length <= max_length THEN doc
    ELSE LET pieces == Pieces(doc)
             w == Len(doc.text)
             total == PieceStart(pieces, Len(pieces)) +
                      (pieces[Len(pieces)].end - pieces[Len(pieces)].start)
         IN  [length |-> Min(total, max_length), text |-> doc.text,
              at |-> {PieceStart(pieces, x[1]) + (x[2] - pieces[x[1]].start) :
                         x \in {y \in (1..Len(pieces)) \X doc.at :
                             /\ pieces[y[1]].start <= y[2]
                             /\ y[2] + w <= pieces[y[1]].end
                             /\ PieceStart(pieces, y[1]) + (y[2] - pieces[y[1]].start) + w
                                   <= max_length}}]

\* what a search of the document reads: the text where it occurs, else filler
Searchable(doc) == IF doc.at = {} THEN "const total = sum(items)" ELSE doc.text

\* the text lies wholly inside or wholly outside every piece and the cut
NeverCut(doc) ==
    LET pieces == Pieces(doc)
        w == Len(doc.text)
    IN  \A i \in 1..Len(pieces), a \in doc.at :
           LET inside == pieces[i].start <= a /\ a + w <= pieces[i].end
               outside == a + w <= pieces[i].start \/ pieces[i].end <= a
               out == PieceStart(pieces, i) + (a - pieces[i].start)
           IN  /\ inside \/ outside
               /\ inside => (out + w <= size_threshold \/ out >= size_threshold)

\* inputs longer than the threshold
LongInputs ==
    {doc \in [length : {1001, 1200, 1500, 2000, 3000},
              text : {"AKIA1234567890ABCDEF", "sudo rm -rf / # TODO", "todo: later",
                      "console.log('debug')"},
              at : {{a} : a \in {0, 100, 480, 600, 700, 900, 1300, 1900}}] :
        /\ \A a \in doc.at : a + Len(doc.text) <= doc.length
        /\ NeverCut(doc)}

\* the patterns of config/patterns.json by severity, when the file exists
\* (_extract_patterns_by_severity of the loaded configuration)
ConfiguredPatterns ==
    [CRITICAL |-> <<"api_secret", "aws_key", "rm_rf", "sudo_rm">>,
     HIGH     |-> <<"bandaid", "todo_fixme">>,
     INFO     |-> <<"debug_output">>]

\* _load_patterns_cached: TRUE when a configuration is returned; nothing is
\* returned (None) when the file does not exist
_load_patterns_cached(s) == s.config_exists

-----------------------------------------------------------------------------
(* Weighing a match: _apply_lightweight_weights followed by                 *)
(* _apply_background_learned_weights, as analyze_input_optimized and the    *)
(* fallback engine call them                                                *)

\* slow: _apply_lightweight_weights exceeds learning_max_time_ms;
\* n: tasks _process_background_learning_queue may pop (0: the 0.002 ms test
\* of _apply_background_learned_weights fails and the queue is left alone);
\* over_budget: the 0.005 ms check of _apply_background_learned_weights fails
Weigh(s, pattern, severity, slow, n, over_budget, t) ==
    LET base_confidence == _apply_lightweight_weights(s, pattern, severity)
        s1 == [s EXCEPT !.learning_enabled = @ /\ ~slow]
        s2 == IF s1.background_learning_enabled /\ s1.learning_queue # << >> /\ n > 0
              THEN _process_background_learning_queue(s1, Min(n, Min(3, Len(s1.learning_queue))), t)
              ELSE s1
    IN  [self |-> s2,
         confidence |-> learned_confidence(s2, pattern, severity, base_confidence, over_budget)]

\* _fallback_analyze_with_background_learning on a host where no time check
\* fails, for the text that the scan reads: the first severity whose first
\* matching pattern reaches the threshold.  The optimizer's cache only repeats
\* what fast_pattern_match returned for the same text.
FallbackVerdict(s, content) ==
    LET hit(severity) == fast_pattern_match(content, ConfiguredPatterns[severity])
        passes(severity) ==
            /\ hit(severity) # ""
            /\ Weigh(s, hit(severity), severity, FALSE, 0, FALSE, 0).confidence
                  >= Threshold(severity)
    IN  IF ~_load_patterns_cached(s) THEN "ERROR"
        ELSE IF passes("CRITICAL") THEN "CRITICAL"
        ELSE IF passes("HIGH") THEN "HIGH"
        ELSE IF passes("INFO") THEN "INFO"
        ELSE "NONE"

SlowChoices(s) == IF s.learning_enabled /\ host = "any" THEN BOOLEAN ELSE {FALSE}

PopChoices(s) ==
    IF s.background_learning_enabled /\ s.learning_queue # << >>
    THEN (CASE host = "any" -> {0, 1, 3} [] host = "steady" -> {0, 3}
            [] host = "lagging" -> {0} [] OTHER -> {3})
    ELSE {0}

BudgetChoices(s) == IF s.background_learning_enabled /\ host = "any" THEN BOOLEAN ELSE {FALSE}

\* a step that is only limited by its own time budget
OverBudgetChoices == IF host = "any" THEN BOOLEAN ELSE {FALSE}

\* the exceptions that can end Step 2: none on a steady or a lagging host
FaultChoices == IF host \in {"steady", "lagging", "prompt"} THEN {"none"} ELSE {"none", "tiered", "body"}

-----------------------------------------------------------------------------
(* scripts/optimized_severity_analyzer.py: pattern generation               *)

\* _extract_keywords finds an ASCII word of three letters or more
HasKeywords(content) == content \notin {"", "bandaid (ja)"}

\* _generate_pattern_variant: the keywords joined to the first pattern of the
\* selected template
GeneratedVariant(content) ==
    CASE content = "sudo rm -rf / # TODO" -> "(sudo|todo|<api_key_variants>)"
      [] content = "AKIA1234567890ABCDEF" -> "(akia1234567890abcdef|<api_key_variants>)"
      [] content = "todo: later"          -> "(later|todo|<bandaid_fixes>)"
      [] content = "TODO <identifier of 600 letters>" -> "(<600 letters>|todo|<bandaid_fixes>)"
      [] content = "console.log('debug')" -> "(log|debug|console|<api_key_variants>)"
      [] content = "sudo ls"              -> "(sudo|<api_key_variants>)"
      [] OTHER                            -> "(const|items|total|<api_key_variants>)"

\* the contents in which re.search finds a generated variant: one of its
\* keywords occurs in them, in the same letter case
VariantMatches(variant) ==
    CASE variant = "(sudo|todo|<api_key_variants>)" -> {"sudo rm -rf / # TODO", "sudo ls", "todo: later"}
      [] variant = "(later|todo|<bandaid_fixes>)"   -> {"todo: later"}
      [] variant = "(sudo|<api_key_variants>)"      -> {"sudo ls"}
      [] OTHER                                      -> {}

\* re.compile accepts the variant: keywords are word characters and every
\* template pattern compiles
VariantCompiles(variant) == TRUE

\* len(pattern) > 500
VariantTooLong(variant) == variant = "(<600 letters>|todo|<bandaid_fixes>)"

\* _validate_generated_pattern
_validate_generated_pattern(variant) == VariantCompiles(variant) /\ ~VariantTooLong(variant)

\* how a call of generate_pattern_runtime ends: the generator is off, the
\* context has no keyword, the candidate fails validation, the time is over
\* max_generation_time_ms, or the result is stored
GenerationOutcome(s, content, over_budget) ==
    CASE ~s.pattern_generation_enabled -> "disabled"
      [] ~HasKeywords(content) -> "no_context"
      [] ~_validate_generated_pattern(GeneratedVariant(content)) -> "rejected"
      [] over_budget -> "over_budget"
      [] OTHER -> "stored"

\* a generate_pattern_runtime that stores its result whatever the elapsed time
generate_pattern_runtime_without_budget(s, content, severity, over_budget, id) ==
    LET outcome == GenerationOutcome(s, content, over_budget)
        stored == outcome \in {"stored", "over_budget"}
        result == [pattern |-> GeneratedVariant(content), severity |-> severity,
                   validation_status |-> "validated"]
    IN  [self |-> IF stored
                  THEN [s EXCEPT !.generated_patterns =
                           [k \in DOMAIN @ \cup {id} |-> IF k = id THEN result ELSE @[k]]]
                  ELSE s,
         generated |-> stored,
         outcome |-> outcome]

\* generate_pattern_runtime; over_budget: elapsed_ms exceeds
\* max_generation_time_ms; id: the millisecond of generation
generate_pattern_runtime(s, content, severity, over_budget, id) ==
    LET variant == GeneratedVariant(content)
        stored == GenerationOutcome(s, content, over_budget) = "stored"
        result == [pattern |-> variant, severity |-> severity, validation_status |-> "validated"]
    IN  [self |-> IF stored
                  THEN [s EXCEPT !.generated_patterns =
                           [k \in DOMAIN @ \cup {id} |-> IF k = id THEN result ELSE @[k]]]
                  ELSE s,
         generated |-> stored,
         outcome |-> GenerationOutcome(s, content, over_budget)]

\* create_auto_rule with the strategy pattern_extension; over_budget:
\* elapsed_ms exceeds max_rule_creation_time_ms; id: the millisecond of creation
create_auto_rule(s, over_budget, id) ==
    IF s.pattern_generation_enabled /\ ~over_budget
    THEN [s EXCEPT !.auto_rules = @ \cup {id}]
    ELSE s

\* candidate regular expressions handed to validate_pattern_runtime
CandidatePatterns ==
    {"password", "xyz", "mkdir", "(sudo|todo|<api_key_variants>)", "unclosed_group"}

\* how many of the positive test cases "password=123456", "TODO: fix this
\* later", "rm -rf /" the candidate finds, ignoring case
DetectionCount(p) ==
    CASE p = "password"                       -> 1
      [] p = "(sudo|todo|<api_key_variants>)" -> 1
      [] OTHER                                -> 0

\* how many of the negative test cases "const api_version = '1.0'",
\* "// TODO: implement feature", "mkdir /tmp/test" the candidate finds
FalsePositiveCount(p) ==
    CASE p = "mkdir"                          -> 1
      [] p = "(sudo|todo|<api_key_variants>)" -> 1
      [] OTHER                                -> 0

\* _validate_regex_pattern; regex_ms: tenths of a millisecond the search of the
\* performance string took
_validate_regex_pattern(p, regex_ms) ==
    IF Compiles(p)
    THEN [compile_success |-> TRUE, performance_acceptable |-> regex_ms < 10]
    ELSE [compile_success |-> FALSE, performance_acceptable |-> FALSE]

\* _validate_pattern_effectiveness: detection_rate >= 0.3 over three cases
_validate_pattern_effectiveness(p) ==
    IF Compiles(p)
    THEN [effectiveness_acceptable |-> DetectionCount(p) * 10 >= 3 * 3]
    ELSE [effectiveness_acceptable |-> FALSE]

\* _validate_false_positive_rate: false_positive_rate <= 0.2 over three cases
_validate_false_positive_rate(p) ==
    IF Compiles(p)
    THEN [fp_rate_acceptable |-> FalsePositiveCount(p) * 10 <= 2 * 3]
    ELSE [fp_rate_acceptable |-> FALSE]

\* _calculate_overall_validation_result: a result that is missing counts as
\* acceptable, and the last resort is the regex performance
_calculate_overall_validation_result(validation_results) ==
    LET regex_result == Get(validation_results, "regex", << >>)
        effectiveness_result == Get(validation_results, "effectiveness", << >>)
        fp_result == Get(validation_results, "false_positive", << >>)
    IN  IF ~Get(regex_result, "compile_success", FALSE) THEN FALSE
        ELSE IF Get(effectiveness_result, "effectiveness_acceptable", TRUE) THEN TRUE
        ELSE IF Get(fp_result, "fp_rate_acceptable", TRUE) THEN TRUE
        ELSE Get(regex_result, "performance_acceptable", TRUE)

\* the clock readings of one validation, in tenths of a millisecond: the regex
\* search, then elapsed_ms before step 2, before step 3 and at the end
ValidationTimings ==
    {t \in [regex : {0, 6, 12}, e1 : {0, 6, 12}, e2 : {0, 9, 12}, e3 : {0, 9, 12}] :
        t.regex <= t.e1 /\ t.e1 <= t.e2 /\ t.e2 <= t.e3}

\* validate_pattern_runtime; a cached result is younger than 30 minutes
validate_pattern_runtime(s, p, t) ==
    LET ran == {"regex"} \cup (IF t.e1 < 5 THEN {"effectiveness"} ELSE {})
                         \cup (IF t.e2 < 8 THEN {"false_positive"} ELSE {})
        validation_results ==
            [k \in ran |-> CASE k = "regex"         -> _validate_regex_pattern(p, t.regex)
                             [] k = "effectiveness" -> _validate_pattern_effectiveness(p)
                             [] OTHER               -> _validate_false_positive_rate(p)]
        validation_result ==
            [valid |-> _calculate_overall_validation_result(validation_results),
             validation_results |-> validation_results,
             success |-> t.e3 <= 10]
    IN  IF ~s.pattern_generation_enabled
        THEN [self |-> s, result |-> [valid |-> FALSE, reason |-> "validator_disabled"]]
        ELSE IF p \in DOMAIN s.pattern_validation_cache
        THEN [self |-> s, result |-> s.pattern_validation_cache[p]]
        ELSE IF validation_result.success
        THEN [self |-> [s EXCEPT !.pattern_validation_cache =
                           [k \in DOMAIN @ \cup {p} |->
                               IF k = p THEN validation_result ELSE @[k]]],
              result |-> validation_result]
        ELSE [self |-> s, result |-> validation_result]

-----------------------------------------------------------------------------
(* OptimizedSeverityAnalyzer.__init__                                       *)

\* fields as assigned at the top of __init__, before the subsystems start
NewAnalyzer(config_exists) ==
    [learning_enabled |-> TRUE, ultrafast_enabled |-> TRUE,
     background_learning_enabled |-> FALSE, realtime_integration_enabled |-> TRUE,
     adaptive_optimization_enabled |-> TRUE, pattern_generation_enabled |-> TRUE,
     tier_constraints |-> DefaultTierConstraints,
     learning_weights |-> << >>,
     ultrafast_patterns_memory |-> << >>, ultrafast_compiled_regex |-> {},
     learning_queue |-> << >>, learning_cache |-> << >>, background_weights |-> << >>,
     background_updates |-> 0, adaptive_improvements |-> 0,
     data_buffer |-> 0, metrics_buffer |-> 0, hook_integration_latency |-> 0,
     recovery_history |-> << >>,
     generated_patterns |-> << >>, auto_rules |-> {},
     pattern_validation_cache |-> << >>,
     patterns_cache |-> FALSE, optimizer |-> EmptyOptimizer,
     config_exists |-> config_exists]

\* _initialize_lightweight_learning
_initialize_lightweight_learning(s, weight_file, slow) ==
    IF weight_file = "malformed" THEN [s EXCEPT !.learning_enabled = FALSE]
    ELSE [s EXCEPT !.learning_weights = WeightFileContent(weight_file),
                   !.learning_enabled = ~slow]

\* _initialize_background_learning, with _schedule_background_initialization
\* when the measured time is above 0.1 ms
_initialize_background_learning(s, slow) ==
    [s EXCEPT !.background_learning_enabled = TRUE,
              !.learning_queue = IF slow THEN <<InitializationTask>> ELSE << >>,
              !.learning_cache = << >>, !.background_weights = << >>]

\* _initialize_realtime_integration at time t
_initialize_realtime_integration(s, slow, t) ==
    IF ~slow THEN [s EXCEPT !.realtime_integration_enabled = TRUE]
    ELSE _activate_error_recovery([s EXCEPT !.realtime_integration_enabled = FALSE],
                                  "initialization_timeout", t, TRUE, "none")

\* _initialize_pattern_generation_system: the generator is on, directly or
\* through _activate_pattern_generation_lightweight_mode
_initialize_pattern_generation_system(s) ==
    [s EXCEPT !.pattern_generation_enabled = TRUE]

\* the subsystems in the order of __init__
OptimizedSeverityAnalyzer(weight_file, slow_learning, fast_core, slow_background, slow_realtime, config_exists) ==
    _initialize_pattern_generation_system(
        _initialize_realtime_integration(
            _initialize_background_learning(
                _initialize_ultrafast_core(
                    _initialize_lightweight_learning(NewAnalyzer(config_exists), weight_file, slow_learning),
                    fast_core),
                slow_background),
            slow_realtime, 0))

-----------------------------------------------------------------------------
(* Bounds of the exploration                                                *)

\* engine calls in one run of a process that submits any input
MaxCalls == 1
\* engine calls in one run of a process that resubmits one input
MaxSessionCalls == 3
\* last value of the millisecond clock
MaxMs == 1
\* last value of the clock now
MaxNow == 2
\* engine calls in one run of a process that also gives feedback
MaxLearnerCalls == 4
\* successful feedback calls in one run
MaxFeedback == 1
\* engine calls in one run of a process that resubmits its first input for long
MaxSoakCalls == 52
\* queue operations of one thread in a run of concurrent callers
MaxThreadOps == 3

-----------------------------------------------------------------------------
(* Initial states                                                           *)

\* environments of the process that hosts the engine
EngineEnvironments ==
    {NoEnv, [NoEnv EXCEPT !["QUALITYGATE_DISABLED"] = <<"1">>]}

FrameIdle ==
    [content |-> "", caller |-> "", elapsed |-> 0, stage |-> "", verdict |-> "",
     tested |-> FALSE, error_occurred |-> FALSE, generation |-> "", start |-> << >>]

LastNone ==
    [op |-> "none", caller |-> "", content |-> "", verdict |-> "", tested |-> FALSE,
     error_occurred |-> FALSE, rc |-> 0, hook |-> "", start |-> << >>, calls |-> 0]

\* what is recorded of the engine when _enter_stability_mode returns; calls is
\* the number of analyze calls completed before
StabilitySnapshot(s, calls) ==
    [entered |-> TRUE, calls |-> calls,
     learning_enabled |-> s.learning_enabled,
     background_learning_enabled |-> s.background_learning_enabled,
     pattern_generation_enabled |-> s.pattern_generation_enabled,
     total_budget |-> s.tier_constraints["TOTAL_BUDGET"],
     learning_queue |-> Len(s.learning_queue),
     learning_cache |-> Len(s.learning_cache),
     metrics_buffer |-> s.metrics_buffer,
     data_buffer |-> s.data_buffer]

StabilityNone == [entered |-> FALSE]

\* a process that runs hooks/unified_quality_hook.py: UnifiedQualityHook()
\* constructs the engine
InitHook ==
    /\ proc = "unified_quality_hook" /\ host = "any"
    /\ environ \in EngineEnvironments
    /\ \E weight_file \in WeightFiles, slow_learning \in BOOLEAN, fast_core \in BOOLEAN,
          slow_background \in BOOLEAN, slow_realtime \in BOOLEAN, config_exists \in BOOLEAN :
          self = OptimizedSeverityAnalyzer(weight_file, slow_learning, fast_core,
                                           slow_background, slow_realtime, config_exists)
    /\ now = 0 /\ ms = 0 /\ pc = "idle"
    /\ frame = FrameIdle /\ last = LastNone /\ stability = StabilityNone
    /\ rr = RunnerIdle /\ bridge = BridgeIdle /\ bypass_check = CheckIdle

-----------------------------------------------------------------------------
(* analyze_input_optimized, step by step, and its two callers               *)

\* the weights and the pattern sets a call starts from
StartSnapshot(s) ==
    [learning_enabled |-> s.learning_enabled,
     learning_weights |-> s.learning_weights,
     background_weights |-> s.background_weights,
     learning_cache |-> s.learning_cache,
     ultrafast_patterns_memory |-> s.ultrafast_patterns_memory,
     generated_patterns |-> s.generated_patterns,
     config_exists |-> s.config_exists]

\* what the timing of a re-initialised ultra-fast core can be
FastChoices(s) == IF s.ultrafast_enabled \/ host # "any" THEN {TRUE} ELSE BOOLEAN

\* the millisecond clock moves on by one, or not, between two id draws
MsChoices == IF ms < MaxMs THEN {ms, ms + 1} ELSE {ms}

\* the return code of UnifiedQualityHook.process_input after the analysis;
\* outcome: "late" when check_timeout_constraint fails, "raises" when the
\* reporting raises, "ok" otherwise
hook_return_code(verdict, outcome) ==
    IF outcome = "ok" /\ verdict = "CRITICAL" THEN 2 ELSE 0

\* check_timeout_constraint: 4.5 seconds after construction the hook is late
HookOutcomes == IF now >= 1 THEN {"late", "raises"} ELSE {"ok", "late", "raises"}

\* entry of analyze_input_optimized: blank input returns NONE at once
Begin(caller, content) ==
    IF IsBlank(content)
    THEN /\ last' = [op |-> "analyze_input_optimized", caller |-> caller, content |-> content,
                     verdict |-> "NONE", tested |-> FALSE, error_occurred |-> FALSE,
                     rc |-> 0, hook |-> IF caller = "process_input" THEN "ok" ELSE "",
                     start |-> StartSnapshot(self), calls |-> last.calls + 1]
         /\ UNCHANGED <<pc, frame>>
    ELSE /\ frame' = [FrameIdle EXCEPT !.content = content, !.caller = caller,
                                       !.start = StartSnapshot(self)]
         /\ pc' = "step0"
         /\ UNCHANGED last

\* a direct call of analyze_input_optimized
AnalyzeInputOptimized ==
    /\ proc = "unified_quality_hook" /\ pc = "idle" /\ last.calls < MaxCalls
    /\ \E content \in Contents : Begin("direct", content)
    /\ UNCHANGED <<proc, host, environ, self, now, ms, stability, rr, bridge, bypass_check>>

\* the input of a process that submits the same text again and again
SessionContents == {"sudo rm -rf / # TODO"}

\* a direct call of analyze_input_optimized in such a process
SessionAnalyze ==
    /\ proc = "session" /\ pc = "idle" /\ last.calls < MaxSessionCalls
    /\ \E content \in SessionContents : Begin("direct", content)
    /\ UNCHANGED <<proc, host, environ, self, now, ms, stability, rr, bridge, bypass_check>>

\* the inputs of the processes that exercise the learning layer: one for each
\* learning tier
LearnerContents == {"sudo rm -rf / # TODO", "todo: later", "console.log('debug')", "sudo ls"}

\* a direct call of analyze_input_optimized in a process that also gives
\* feedback and clears the caches
LearnerAnalyze ==
    /\ proc = "learner" /\ pc = "idle" /\ last.calls < MaxLearnerCalls
    /\ \E content \in LearnerContents : Begin("direct", content)
    /\ UNCHANGED <<proc, host, environ, self, now, ms, stability, rr, bridge, bypass_check>>

\* the pattern ids a feedback call names
FeedbackPatterns == {"tiered_pattern", "debug_output", "rm_rf"}

\* a call of adapt_learning_from_feedback between two analyses
AdaptLearningFromFeedback ==
    /\ proc = "learner" /\ pc = "idle" /\ self.adaptive_improvements < MaxFeedback
    /\ \E pattern_id \in FeedbackPatterns, feedback_type \in FeedbackTypes :
          self' = adapt_learning_from_feedback(self, pattern_id, feedback_type)
    /\ UNCHANGED <<proc, host, environ, now, ms, pc, frame, last, stability, rr, bridge, bypass_check>>

\* a call of clear_all_caches between two analyses
ClearAllCaches ==
    /\ proc = "learner" /\ pc = "idle"
    /\ self' = clear_all_caches(self)
    /\ UNCHANGED <<proc, host, environ, now, ms, pc, frame, last, stability, rr, bridge, bypass_check>>

\* the system clock is set back between two calls: time.time() returns a
\* lower value than before
ClockSetBack ==
    /\ proc = "learner" /\ pc = "idle" /\ now > 0
    /\ now' = now - 1
    /\ UNCHANGED <<proc, host, environ, self, ms, pc, frame, last, stability, rr, bridge, bypass_check>>

\* a direct call of analyze_input_optimized in a process that submits its
\* first input again and again
SoakAnalyze ==
    /\ proc = "soak" /\ pc = "idle" /\ last.calls < MaxSoakCalls
    /\ \E content \in (IF last.calls = 0 THEN LearnerContents ELSE {last.content}) :
          Begin("direct", content)
    /\ UNCHANGED <<proc, host, environ, self, now, ms, stability, rr, bridge, bypass_check>>

\* UnifiedQualityHook.process_input up to its call of the engine
ProcessInput ==
    /\ proc = "unified_quality_hook" /\ pc = "idle" /\ last.calls < MaxCalls
    /\ \E content \in Contents :
          IF EngineBypass(environ)
          THEN /\ last' = [LastNone EXCEPT !.op = "process_input", !.caller = "process_input",
                                           !.content = content, !.verdict = "bypassed",
                                           !.calls = last.calls + 1]
               /\ UNCHANGED <<pc, frame>>
          ELSE Begin("process_input", content)
    /\ UNCHANGED <<proc, host, environ, self, now, ms, stability, rr, bridge, bypass_check>>

\* Step 0 and Step 1: real-time preprocessing, then the bypass check
Preprocess ==
    /\ pc = "step0"
    /\ \E fast \in FastChoices(self),
          slow \in (IF self.realtime_integration_enabled /\ self.adaptive_optimization_enabled
                    THEN OverBudgetChoices ELSE {FALSE}) :
          LET s1 == Step0(self, TRUE, fast, slow)
          IN  IF EngineBypass(environ)
              THEN /\ self' = _record_metrics_datapoint(s1)
                   /\ frame' = [frame EXCEPT !.verdict = "BYPASS"]
                   /\ pc' = "finally"
              ELSE /\ self' = s1
                   /\ frame' = [frame EXCEPT !.elapsed = IF slow THEN 101 ELSE 0]
                   /\ pc' = "tiered"
    /\ UNCHANGED <<proc, host, environ, now, ms, last, stability, rr, bridge, bypass_check>>

\* where the call goes when the tiered engine says CONTINUE
AfterTiered(s) == IF s.ultrafast_enabled THEN "ultrafast" ELSE "fallback"

\* Step 2: the tiered engine and the learning that follows a verdict; fault
\* is "none", "tiered" (an exception inside _tiered_pattern_analysis) or
\* "body" (an exception in the body of analyze_input_optimized)
Tiered ==
    /\ pc = "tiered"
    /\ \E t1 \in Readings(frame.elapsed, {self.tier_constraints["ULTRA_CRITICAL"] - 1,
                                          self.tier_constraints["CRITICAL_FAST"] - 1,
                                          self.tier_constraints["TOTAL_BUDGET"]}),
          slow \in SlowChoices(self), slowBG \in BudgetChoices(self),
          fault \in FaultChoices :
          LET r == _tiered_pattern_analysis(self, frame.content, t1, slow)
              s1 == [self EXCEPT !.learning_enabled = r.learning_enabled]
          IN  CASE fault = "body" ->
                     /\ pc' = "except"
                     /\ UNCHANGED <<self, frame>>
                [] fault = "tiered" ->
                     /\ pc' = "finally"
                     /\ frame' = [frame EXCEPT !.verdict = "ERROR", !.tested = TRUE]
                     /\ UNCHANGED self
                [] OTHER ->
                     IF r.verdict = "CONTINUE"
                     THEN /\ self' = s1
                          /\ frame' = [frame EXCEPT !.elapsed = t1, !.tested = TRUE, !.stage = "CRITICAL"]
                          /\ pc' = AfterTiered(s1)
                     ELSE IF r.verdict = "TIMEOUT"
                     THEN /\ self' = s1
                          /\ frame' = [frame EXCEPT !.elapsed = t1, !.verdict = "TIMEOUT"]
                          /\ pc' = "finally"
                     ELSE /\ self' = _background_pattern_learning(s1, "tiered_pattern", r.verdict, One, slowBG, now)
                          /\ frame' = [frame EXCEPT !.elapsed = t1, !.tested = TRUE, !.verdict = r.verdict]
                          /\ pc' = IF self.pattern_generation_enabled THEN "generate" ELSE "finally"
    /\ UNCHANGED <<proc, host, environ, now, ms, last, stability, rr, bridge, bypass_check>>

\* Step 2.5: generate_pattern_runtime for the matched input
Generate ==
    /\ pc = "generate"
    /\ \E over_budget \in OverBudgetChoices, id \in MsChoices :
          LET g == generate_pattern_runtime(self, frame.content, frame.verdict, over_budget, id)
          IN  /\ self' = g.self
              /\ ms' = id
              /\ frame' = [frame EXCEPT !.generation = g.outcome]
              /\ pc' = IF g.generated THEN "rule" ELSE "finally"
    /\ UNCHANGED <<proc, host, environ, now, last, stability, rr, bridge, bypass_check>>

\* Step 2.5, continued: create_auto_rule after a successful generation
AutoRule ==
    /\ pc = "rule"
    /\ \E over_budget \in OverBudgetChoices, id \in MsChoices :
          /\ self' = create_auto_rule(self, over_budget, id)
          /\ ms' = id
    /\ pc' = "finally"
    /\ UNCHANGED <<proc, host, environ, now, frame, last, stability, rr, bridge, bypass_check>>

\* the stage of the ultra-fast core that follows a stage without a verdict,
\* by the reading t: HIGH needs less than 0.015 ms, INFO less than 0.020 ms
NextUltrafastStage(stage, t) ==
    CASE stage = "CRITICAL" /\ t < 15 -> "HIGH"
      [] stage \in {"CRITICAL", "HIGH"} /\ t < 20 -> "INFO"
      [] OTHER -> "NONE"

\* Step 3: one severity of the ultra-fast core
UltraFast ==
    /\ pc = "ultrafast"
    /\ \E slow \in SlowChoices(self), n \in PopChoices(self), over_budget \in BudgetChoices(self),
          slowBG \in BudgetChoices(self), t \in Readings(frame.elapsed, {14, 19}) :
          LET pattern == _ultrafast_pattern_match(self, frame.content, frame.stage)
              w == Weigh(self, pattern, frame.stage, slow, n, over_budget, now)
              next == NextUltrafastStage(frame.stage, t)
          IN  IF pattern # "" /\ w.confidence >= Threshold(frame.stage)
              THEN /\ self' = _background_pattern_learning(w.self, pattern, frame.stage, w.confidence, slowBG, now)
                   /\ frame' = [frame EXCEPT !.verdict = frame.stage]
                   /\ pc' = "finally"
              ELSE /\ self' = IF pattern # "" THEN w.self ELSE self
                   /\ IF next = "NONE"
                      THEN /\ frame' = [frame EXCEPT !.verdict = "NONE", !.elapsed = t]
                           /\ pc' = "finally"
                      ELSE /\ frame' = [frame EXCEPT !.stage = next, !.elapsed = t]
                           /\ pc' = "ultrafast"
    /\ UNCHANGED <<proc, host, environ, now, ms, last, stability, rr, bridge, bypass_check>>

\* the stage of the fallback engine that follows a stage without a verdict:
\* TIMEOUT after one second, INFO only within 0.050 s
NextFallbackStage(stage, t) ==
    CASE stage = "CRITICAL" /\ t > 1000000 -> "TIMEOUT"
      [] stage = "CRITICAL" -> "HIGH"
      [] stage = "HIGH" /\ t < 50000 -> "INFO"
      [] OTHER -> "NONE"

\* Step 4: one severity of _fallback_analyze_with_background_learning
Fallback ==
    /\ pc = "fallback"
    /\ \E slow \in SlowChoices(self), n \in PopChoices(self), over_budget \in BudgetChoices(self),
          slowBG \in BudgetChoices(self), t \in Readings(frame.elapsed, {49999, 1000000}) :
          LET loaded == [self EXCEPT !.patterns_cache = TRUE]
              a == analyze_with_cache(loaded.optimizer, frame.content,
                                      ConfiguredPatterns[frame.stage], frame.stage)
              s1 == [loaded EXCEPT !.optimizer = a.optimizer]
              w == Weigh(s1, a.pattern, frame.stage, slow, n, over_budget, now)
              next == NextFallbackStage(frame.stage, t)
          IN  IF ~_load_patterns_cached(self)
              THEN /\ frame' = [frame EXCEPT !.verdict = "ERROR"]
                   /\ pc' = "finally"
                   /\ UNCHANGED self
              ELSE IF a.pattern # "" /\ w.confidence >= Threshold(frame.stage)
              THEN /\ self' = _background_pattern_learning(w.self, a.pattern, frame.stage, w.confidence, slowBG, now)
                   /\ frame' = [frame EXCEPT !.verdict = frame.stage]
                   /\ pc' = "finally"
              ELSE /\ self' = IF a.pattern # "" THEN w.self ELSE s1
                   /\ IF next \in {"TIMEOUT", "NONE"}
                      THEN /\ frame' = [frame EXCEPT !.verdict = next, !.elapsed = t]
                           /\ pc' = "finally"
                      ELSE /\ frame' = [frame EXCEPT !.stage = next, !.elapsed = t]
                           /\ pc' = "fallback"
    /\ UNCHANGED <<proc, host, environ, now, ms, last, stability, rr, bridge, bypass_check>>

\* the except clause of analyze_input_optimized; rfault is the fault of the
\* recovery handling itself
Except ==
    /\ pc = "except"
    /\ \E fast \in FastChoices(self), rfault \in {"none", "strategy", "activation"} :
          LET s1 == _record_metrics_datapoint(self)
              s2 == _activate_error_recovery(s1, "analysis_error", now, fast, rfault)
          IN  /\ self' = s2
              /\ stability' = IF rfault # "activation" /\ EntersStabilityMode(s1, now)
                              THEN StabilitySnapshot(s2, last.calls) ELSE stability
    /\ frame' = [frame EXCEPT !.verdict = "ERROR", !.error_occurred = TRUE]
    /\ pc' = "finally"
    /\ UNCHANGED <<proc, host, environ, now, ms, last, rr, bridge, bypass_check>>

\* the last reading of a call: one value for each outcome of the comparisons
\* with the limits that the floor allows
FinalReadings(floor, limits) ==
    LET top == CHOOSE l \in limits : \A m \in limits : m <= l
    IN  IF host \in {"steady", "lagging", "prompt"} THEN {floor}
        ELSE {l \in limits : l >= floor} \cup {Max(floor, top + 1)}

\* the finally clause of analyze_input_optimized and the return to the caller
Finally ==
    /\ pc = "finally"
    /\ \E tEnd \in FinalReadings(frame.elapsed, {75, self.tier_constraints["TOTAL_BUDGET"]}),
          fast \in FastChoices(self), outcome \in HookOutcomes :
          LET violation == /\ tEnd > self.tier_constraints["TOTAL_BUDGET"]
                           /\ self.realtime_integration_enabled
              s1 == IF violation
                    THEN _activate_error_recovery(self, "timeout_violation", now, fast, "none")
                    ELSE self
              s2 == [s1 EXCEPT !.hook_integration_latency = tEnd]
              s3 == IF frame.error_occurred THEN s2 ELSE _record_metrics_datapoint(s2)
          IN  /\ self' = s3
              /\ stability' = IF violation /\ EntersStabilityMode(self, now)
                              THEN StabilitySnapshot(s1, last.calls) ELSE stability
              /\ last' = [op |-> "analyze_input_optimized", caller |-> frame.caller,
                          content |-> frame.content, verdict |-> frame.verdict,
                          tested |-> frame.tested, error_occurred |-> frame.error_occurred,
                          rc |-> IF frame.caller = "process_input"
                                 THEN hook_return_code(frame.verdict, outcome) ELSE 0,
                          hook |-> IF frame.caller = "process_input" THEN outcome ELSE "",
                          start |-> frame.start, calls |-> last.calls + 1]
    /\ frame' = FrameIdle
    /\ pc' = "idle"
    /\ UNCHANGED <<proc, host, environ, now, ms, rr, bridge, bypass_check>>

\* thirty seconds pass between two calls
Tick ==
    /\ proc \in {"unified_quality_hook", "session", "learner", "soak"} /\ pc = "idle" /\ now < MaxNow
    /\ now' = now + 1
    /\ UNCHANGED <<proc, host, environ, self, ms, pc, frame, last, stability, rr, bridge, bypass_check>>

-----------------------------------------------------------------------------
(* The other programs, and the specifications                               *)

\* no engine is constructed by the other programs
NoAnalyzer == << >>

InitRunner ==
    /\ proc = "qg_runner" /\ host = "any" /\ environ \in Environments /\ self = NoAnalyzer
    /\ now = 0 /\ ms = 0 /\ pc = "idle"
    /\ frame = FrameIdle /\ last = LastNone /\ stability = StabilityNone
    /\ rr = RunnerIdle /\ bridge = BridgeIdle /\ bypass_check = CheckIdle

InitBridge ==
    /\ proc = "qualitygate_bridge" /\ host = "any" /\ environ \in Environments /\ self = NoAnalyzer
    /\ now = 0 /\ ms = 0 /\ pc = "idle"
    /\ frame = FrameIdle /\ last = LastNone /\ stability = StabilityNone
    /\ rr = RunnerIdle /\ bridge = BridgeInit(environ) /\ bypass_check = CheckIdle

InitCheck ==
    /\ proc = "severity_analyzer" /\ host = "any" /\ environ \in Environments /\ self = NoAnalyzer
    /\ now = 0 /\ ms = 0 /\ pc = "idle"
    /\ frame = FrameIdle /\ last = LastNone /\ stability = StabilityNone
    /\ rr = RunnerIdle /\ bridge = BridgeIdle /\ bypass_check = CheckIdle

\* a process that constructs the engine on a fast host, with the default
\* weights, and calls it directly
InitSession ==
    /\ proc = "session" /\ host = "fast"
    /\ environ = NoEnv
    /\ \E fast_core \in BOOLEAN, config_exists \in BOOLEAN :
          self = OptimizedSeverityAnalyzer("absent", FALSE, fast_core, FALSE, FALSE, config_exists)
    /\ now = 0 /\ ms = 0 /\ pc = "idle"
    /\ frame = FrameIdle /\ last = LastNone /\ stability = StabilityNone
    /\ rr = RunnerIdle /\ bridge = BridgeIdle /\ bypass_check = CheckIdle

Init == InitHook \/ InitRunner \/ InitBridge \/ InitCheck

Next ==
    \/ AnalyzeInputOptimized
    \/ ProcessInput
    \/ Preprocess
    \/ Tiered
    \/ Generate
    \/ AutoRule
    \/ UltraFast
    \/ Fallback
    \/ Except
    \/ Finally
    \/ Tick
    \/ RunnerMain
    \/ ProcessEvent
    \/ CheckBypassConditions

Spec == Init /\ [][Next]_vars

\* the command line runner alone
SpecRunner == InitRunner /\ [][RunnerMain]_vars

NextSession ==
    \/ SessionAnalyze
    \/ Preprocess
    \/ Tiered
    \/ Generate
    \/ AutoRule
    \/ UltraFast
    \/ Fallback
    \/ Except
    \/ Finally
    \/ Tick

\* one engine that is called several times with the same input
SpecSession == InitSession /\ [][NextSession]_vars

\* a process on a steady host whose weight file has been tuned by hand; it
\* analyses inputs, gives feedback and clears the caches
InitLearner ==
    /\ proc = "learner" /\ host = "steady"
    /\ environ = NoEnv
    /\ self = OptimizedSeverityAnalyzer("tuned", FALSE, TRUE, FALSE, FALSE, TRUE)
    /\ now = 0 /\ ms = 0 /\ pc = "idle"
    /\ frame = FrameIdle /\ last = LastNone /\ stability = StabilityNone
    /\ rr = RunnerIdle /\ bridge = BridgeIdle /\ bypass_check = CheckIdle

NextLearner ==
    \/ LearnerAnalyze
    \/ AdaptLearningFromFeedback
    \/ ClearAllCaches
    \/ ClockSetBack
    \/ Preprocess
    \/ Tiered
    \/ Generate
    \/ AutoRule
    \/ UltraFast
    \/ Finally
    \/ Tick

\* one engine whose learning layer is driven by analyses and by feedback
SpecLearner == InitLearner /\ [][NextLearner]_vars

\* the fallback engine is handed a long input: it scans the reduced view
FallbackLongInput ==
    /\ proc = "fallback_engine" /\ pc = "idle"
    /\ \E doc \in LongInputs :
          LET view == optimize_for_size(doc, size_threshold)
          IN  last' = [op |-> "_fallback_analyze_with_background_learning", caller |-> "",
                       content |-> Searchable(doc),
                       verdict |-> FallbackVerdict(self, Searchable(view)),
                       tested |-> FALSE, error_occurred |-> FALSE,
                       rc |-> 0, hook |-> "", start |-> << >>, calls |-> 0,
                       doc |-> doc, view |-> view]
    /\ UNCHANGED <<proc, host, environ, self, now, ms, pc, frame, stability, rr, bridge,
                   bypass_check>>

\* a process whose engine has left the ultra-fast core and reads long inputs
InitFallback ==
    /\ proc = "fallback_engine" /\ host = "fast"
    /\ environ = NoEnv
    /\ self = OptimizedSeverityAnalyzer("absent", FALSE, TRUE, FALSE, FALSE, TRUE)
    /\ now = 0 /\ ms = 0 /\ pc = "idle"
    /\ frame = FrameIdle /\ last = LastNone /\ stability = StabilityNone
    /\ rr = RunnerIdle /\ bridge = BridgeIdle /\ bypass_check = CheckIdle

\* the fallback engine over long inputs
SpecFallback == InitFallback /\ [][FallbackLongInput]_vars

\* a caller hands a candidate to validate_pattern_runtime
ValidatePatternRuntime ==
    /\ proc = "validator" /\ pc = "idle"
    /\ \E p \in CandidatePatterns, t \in ValidationTimings :
          LET r == validate_pattern_runtime(self, p, t)
          IN  /\ self' = r.self
              /\ last' = [op |-> "validate_pattern_runtime", caller |-> "", content |-> p,
                          verdict |-> "", tested |-> FALSE, error_occurred |-> FALSE,
                          rc |-> 0, hook |-> "", start |-> << >>, calls |-> 0,
                          result |-> r.result]
    /\ UNCHANGED <<proc, host, environ, now, ms, pc, frame, stability, rr, bridge,
                   bypass_check>>

\* a process that validates candidate patterns on a freshly built engine
InitValidator ==
    /\ proc = "validator" /\ host = "any"
    /\ environ = NoEnv
    /\ self = OptimizedSeverityAnalyzer("absent", FALSE, TRUE, FALSE, FALSE, TRUE)
    /\ now = 0 /\ ms = 0 /\ pc = "idle"
    /\ frame = FrameIdle /\ last = LastNone /\ stability = StabilityNone
    /\ rr = RunnerIdle /\ bridge = BridgeIdle /\ bypass_check = CheckIdle

\* one engine whose validator is called with candidate after candidate
SpecValidator == InitValidator /\ [][ValidatePatternRuntime]_vars

\* a process on a lagging host that starts from the default weights
InitSoak ==
    /\ proc = "soak" /\ host = "lagging"
    /\ environ = NoEnv
    /\ self = OptimizedSeverityAnalyzer("absent", FALSE, TRUE, FALSE, FALSE, TRUE)
    /\ now = 0 /\ ms = 0 /\ pc = "idle"
    /\ frame = FrameIdle /\ last = LastNone /\ stability = StabilityNone
    /\ rr = RunnerIdle /\ bridge = BridgeIdle /\ bypass_check = CheckIdle

NextSoak ==
    \/ SoakAnalyze
    \/ Preprocess
    \/ Tiered
    \/ Generate
    \/ AutoRule
    \/ UltraFast
    \/ Finally
    \/ Tick

\* one engine that is called many times with the same input
SpecSoak == InitSoak /\ [][NextSoak]_vars

\* the first input of a long-running process: one that the tiered engine
\* decides or one that reaches the ultra-fast core
ServerContents == {"sudo rm -rf / # TODO", "console.log('debug')"}

\* the input such a process receives in every later call
ServerCommand == "sudo rm -rf / # TODO"

\* a direct call of analyze_input_optimized in a process that serves calls
\* without end; the number of calls served is not kept
ServeAnalyze ==
    /\ proc = "server" /\ pc = "idle"
    /\ \E content \in (IF last.op = "none" THEN ServerContents ELSE {ServerCommand}) :
          frame' = [FrameIdle EXCEPT !.content = content, !.caller = "direct",
                                     !.start = StartSnapshot(self)]
    /\ pc' = "step0"
    /\ last' = [last EXCEPT !.calls = 0]
    /\ UNCHANGED <<proc, host, environ, self, now, ms, stability, rr, bridge, bypass_check>>

\* a long-running process on a prompt host, whose engine was constructed
\* while the host was busy: the real-time integration took more than its
\* 0.5 ms and is off
InitServe ==
    /\ proc = "server" /\ host = "prompt"
    /\ environ = NoEnv
    /\ self = OptimizedSeverityAnalyzer("absent", FALSE, TRUE, FALSE, TRUE, TRUE)
    /\ now = 0 /\ ms = 0 /\ pc = "idle"
    /\ frame = FrameIdle /\ last = LastNone /\ stability = StabilityNone
    /\ rr = RunnerIdle /\ bridge = BridgeIdle /\ bypass_check = CheckIdle

NextServe ==
    \/ ServeAnalyze
    \/ Preprocess
    \/ Tiered
    \/ Generate
    \/ AutoRule
    \/ UltraFast
    \/ Finally

\* one engine that keeps serving calls: a call in progress takes its next
\* step, and an idle engine receives its next call
SpecServe == InitServe /\ [][NextServe]_vars /\ WF_vars(NextServe)

\* threads that call one engine at the same time; the engine takes no lock.
\* frame[th] holds the locals of thread th: at, its position ("start" between
\* two operations); room, the outcome of its capacity test; data, the task
\* it built; seen, the outcome of its emptiness test; ops, its operations so
\* far.  last.issued counts the tasks built, last.applied lists the
\* timestamps of the tasks applied.
Threads == {1, 2}

\* _background_pattern_learning up to its capacity test: the task is built
\* and len(self.learning_queue) < max_queue is evaluated
CheckCapacity(th) ==
    /\ proc = "threads" /\ frame[th].at = "start" /\ frame[th].ops < MaxThreadOps
    /\ self.background_learning_enabled
    /\ LET tier == LearningTier("CRITICAL")
           learning_data == [type |-> "pattern_update", pattern |-> "tiered_pattern",
                             severity |-> "CRITICAL", confidence |-> One,
                             timestamp |-> last.issued + 1, tier |-> tier]
           max_queue == tiered_learning_config[tier].max_queue_size
       IN  /\ frame' = [frame EXCEPT ![th].at = "checked", ![th].data = learning_data,
                                      ![th].room = Len(self.learning_queue) < max_queue,
                                      ![th].ops = @ + 1]
           /\ last' = [last EXCEPT !.issued = @ + 1]
    /\ UNCHANGED <<proc, host, environ, self, now, ms, pc, stability, rr, bridge, bypass_check>>

\* _background_pattern_learning after its capacity test: the append, if the
\* test found room
AppendTask(th) ==
    /\ proc = "threads" /\ frame[th].at = "checked"
    /\ self' = IF frame[th].room
               THEN [self EXCEPT !.learning_queue = Append(@, frame[th].data)]
               ELSE self
    /\ frame' = [frame EXCEPT ![th].at = "start"]
    /\ UNCHANGED <<proc, host, environ, now, ms, pc, last, stability, rr, bridge, bypass_check>>

\* _process_background_learning_queue, one round of its loop, up to the test
\* of the queue
TestQueue(th) ==
    /\ proc = "threads" /\ frame[th].at = "start" /\ frame[th].ops < MaxThreadOps
    /\ self.background_learning_enabled
    /\ frame' = [frame EXCEPT ![th].at = "tested", ![th].seen = self.learning_queue # << >>,
                               ![th].ops = @ + 1]
    /\ UNCHANGED <<proc, host, environ, self, now, ms, pc, last, stability, rr, bridge, bypass_check>>

\* the rest of the round: pop(0), which removes and returns the first task
\* in one step (it raises on an empty list and the function returns), and
\* the update of the weights with the task
PopAndApply(th) ==
    /\ proc = "threads" /\ frame[th].at = "tested"
    /\ IF frame[th].seen /\ self.learning_queue # << >>
       THEN /\ self' = _process_background_learning_queue(self, 1, now)
            /\ last' = [last EXCEPT !.applied = Append(@, Head(self.learning_queue).timestamp)]
       ELSE UNCHANGED <<self, last>>
    /\ frame' = [frame EXCEPT ![th].at = "start"]
    /\ UNCHANGED <<proc, host, environ, now, ms, pc, stability, rr, bridge, bypass_check>>

\* one engine shared by the threads
InitThreads ==
    /\ proc = "threads" /\ host = "steady"
    /\ environ = NoEnv
    /\ self = OptimizedSeverityAnalyzer("absent", FALSE, TRUE, FALSE, FALSE, TRUE)
    /\ now = 0 /\ ms = 0 /\ pc = "idle"
    /\ frame = [th \in Threads |->
                   [at |-> "start", room |-> FALSE, seen |-> FALSE, ops |-> 0,
                    data |-> InitializationTask]]
    /\ last = [op |-> "threads", issued |-> 0, applied |-> << >>]
    /\ stability = StabilityNone
    /\ rr = RunnerIdle /\ bridge = BridgeIdle /\ bypass_check = CheckIdle

NextThreads ==
    \E th \in Threads :
        \/ CheckCapacity(th)
        \/ AppendTask(th)
        \/ TestQueue(th)
        \/ PopAndApply(th)

\* every interleaving of the queue steps of the threads
SpecThreads == InitThreads /\ [][NextThreads]_vars

\* the contents handed to a PerformanceOptimizer, and the pattern lists of a
\* severity: the configured one and the ones of two other configurations
OptimizerContents ==
    {"sudo rm -rf / # TODO", "DROP DATABASE production", "console.log('debug')",
     "const total = sum(items)"}

OptimizerPatterns(severity) ==
    {ConfiguredPatterns[severity], <<"sudo_rm">>, <<"drop_database", "todo_fixme">>}

\* a call of PerformanceOptimizer.analyze_with_cache
AnalyzeWithCache ==
    /\ proc = "performance_optimizer"
    /\ \E content \in OptimizerContents, severity \in {"CRITICAL", "HIGH"} :
          \E patterns \in OptimizerPatterns(severity) :
              LET a == analyze_with_cache(self.optimizer, content, patterns, severity)
              IN  /\ self' = [self EXCEPT !.optimizer = a.optimizer]
                  /\ last' = [op |-> "analyze_with_cache", caller |-> "", content |-> content,
                               verdict |-> "", tested |-> a.searched, error_occurred |-> FALSE,
                               rc |-> 0, hook |-> "", start |-> << >>, calls |-> 0,
                               patterns |-> patterns, severity |-> severity,
                               result |-> a.pattern]
    /\ UNCHANGED <<proc, host, environ, now, ms, pc, frame, stability, rr, bridge, bypass_check>>

\* a process that owns a PerformanceOptimizer with empty caches
InitOptimizer ==
    /\ proc = "performance_optimizer" /\ host = "steady"
    /\ environ = NoEnv
    /\ self = OptimizedSeverityAnalyzer("absent", FALSE, TRUE, FALSE, FALSE, TRUE)
    /\ now = 0 /\ ms = 0 /\ pc = "idle"
    /\ frame = FrameIdle /\ last = LastNone /\ stability = StabilityNone
    /\ rr = RunnerIdle /\ bridge = BridgeIdle /\ bypass_check = CheckIdle

\* one optimizer that is called again and again
SpecOptimizer == InitOptimizer /\ [][AnalyzeWithCache]_vars

\* the learning cache after the patterns 1 .. n of a configuration were
\* learnt one after the other and the first k of them were learnt once more
\* (_update_tiered_cache n + k times: a new key is appended, a known key is
\* overwritten in place); ticking: the clock moves on between two updates
LearntCache(n, k, ticking) ==
    [i \in 1 .. n |->
        [key |-> <<"HIGH_NORMAL", i>>, weight |-> One,
         last_updated |-> IF ~ticking THEN 0 ELSE IF i <= k THEN n + i ELSE i]]

\* numbers of patterns learnt, and of patterns learnt again
CacheSizes == {10, 21, 30, 40, 50, 51, 60, 70, 80, 100}
RelearntCounts == {0, 1, 5, 10}

\* the memory-pressure branch of _execute_adaptive_optimizations on a filled cache
ShrinkUnderMemoryPressure ==
    /\ proc = "cache_owner" /\ last.op = "none"
    /\ self' = _execute_adaptive_optimizations(self, {"memory_pressure"}, TRUE)
    /\ last' = [LastNone EXCEPT !.op = "_execute_adaptive_optimizations",
                                !.start = StartSnapshot(self)]
    /\ UNCHANGED <<proc, host, environ, now, ms, pc, frame, stability, rr, bridge, bypass_check>>

\* the reduce_cache_size strategy of _execute_recovery_strategy on a filled cache
ReduceCacheSize ==
    /\ proc = "cache_owner" /\ last.op = "none"
    /\ self' = _execute_recovery_strategy(self, "reduce_cache_size", TRUE)
    /\ last' = [LastNone EXCEPT !.op = "_execute_recovery_strategy",
                                !.start = StartSnapshot(self)]
    /\ UNCHANGED <<proc, host, environ, now, ms, pc, frame, stability, rr, bridge, bypass_check>>

\* _update_tiered_cache on a filled cache: with a key the cache holds or a
\* new one, at a clock reading before or after every reading stored
LearnOneMore ==
    /\ proc = "cache_owner" /\ last.op = "none"
    /\ \E pattern \in {1, 101}, t \in {0, 500} :
          /\ self' = [self EXCEPT !.learning_cache =
                                     _update_tiered_cache(@, pattern, "HIGH_NORMAL", One, t)]
          /\ last' = [op |-> "_update_tiered_cache", caller |-> "", content |-> "",
                       verdict |-> "", tested |-> FALSE, error_occurred |-> FALSE,
                       rc |-> 0, hook |-> "", start |-> StartSnapshot(self), calls |-> 0,
                       entry |-> [key |-> <<"HIGH_NORMAL", pattern>>, weight |-> One,
                                  last_updated |-> t]]
    /\ UNCHANGED <<proc, host, environ, now, ms, pc, frame, stability, rr, bridge, bypass_check>>

\* an engine whose learning cache was filled by the background learner
InitCache ==
    /\ proc = "cache_owner" /\ host = "steady"
    /\ environ = NoEnv
    /\ \E n \in CacheSizes, k \in RelearntCounts, ticking \in BOOLEAN :
          self = [OptimizedSeverityAnalyzer("absent", FALSE, TRUE, FALSE, FALSE, TRUE)
                     EXCEPT !.learning_cache = LearntCache(n, k, ticking)]
    /\ now = 0 /\ ms = 0 /\ pc = "idle"
    /\ frame = FrameIdle /\ last = LastNone /\ stability = StabilityNone
    /\ rr = RunnerIdle /\ bridge = BridgeIdle /\ bypass_check = CheckIdle

\* the two operations that shrink the learning cache, on caches of many sizes
SpecCache == InitCache /\ [][ShrinkUnderMemoryPressure \/ ReduceCacheSize]_vars

\* a long-running process whose real-time integration is on
InitLive ==
    /\ proc = "server" /\ host = "prompt"
    /\ environ = NoEnv
    /\ self = OptimizedSeverityAnalyzer("absent", FALSE, TRUE, FALSE, FALSE, TRUE)
    /\ now = 0 /\ ms = 0 /\ pc = "idle"
    /\ frame = FrameIdle /\ last = LastNone /\ stability = StabilityNone
    /\ rr = RunnerIdle /\ bridge = BridgeIdle /\ bypass_check = CheckIdle

NextBuffers ==
    \/ NextServe
    \/ ShrinkUnderMemoryPressure
    \/ ReduceCacheSize
    \/ LearnOneMore

\* the operations that fill and trim the metrics buffer, the hook data buffer
\* and the learning cache: long-running engines with and without the
\* real-time integration, and updates of filled caches
SpecBuffers == (InitServe \/ InitLive \/ InitCache) /\ [][NextBuffers]_vars

-----------------------------------------------------------------------------
(* Properties                                                               *)

\* C1: for a non-empty input and no bypass variable set, a severity verdict
\* of analyze_input_optimized is CRITICAL when some ULTRA_CRITICAL pattern
\* matches with a weighted confidence of at least 0.8, it is HIGH when no such
\* match exists and some CRITICAL_FAST pattern matches with at least 0.6, and
\* it is never INFO or NONE while such a match exists
C1_SeverityOrder ==
    LET Matched(tier, severity) ==
            \E k \in DOMAIN tiered_patterns[tier] :
                /\ tiered_patterns[tier][k] \in MatchIgnoreCase(last.content)
                /\ _apply_lightweight_weights(last.start, tiered_patterns[tier][k], severity)
                       >= Threshold(severity)
        critical == Matched("ULTRA_CRITICAL", "CRITICAL")
        high == Matched("CRITICAL_FAST", "HIGH")
    IN  (/\ last.op = "analyze_input_optimized"
         /\ ~IsBlank(last.content)
         /\ environ = NoEnv
         /\ last.verdict \in {"CRITICAL", "HIGH", "INFO", "NONE"})
        => /\ critical => last.verdict = "CRITICAL"
           /\ (~critical /\ high) => last.verdict = "HIGH"

\* C2: with a bypass variable set to 1, analyze_input_optimized returns BYPASS
\* for every content, the empty one included, and tests no pattern
C2_BypassAlways ==
    (last.op = "analyze_input_optimized" /\ EngineBypass(environ))
    => (last.verdict = "BYPASS" /\ ~last.tested)

\* C3: qg_runner ends with exit code 2 exactly when the finding is CRITICAL
\* and --warn-only is not set, with 0 in every other case, and the printed
\* verdict has block = true exactly when the exit code is 2
C3_ExitCode ==
    rr.ran
    => /\ rr.result.code = 2 <=> (rr.result.severity = "CRITICAL" /\ ~rr.argv.warn_only)
       /\ rr.result.code \in {0, 2}
       /\ rr.result.block <=> rr.result.code = 2

\* C4: no internal failure leaves qg_runner.main as an exception or blocks:
\* a failed import, an input that cannot be read and an exception of the
\* analysis all end in a return of 0 with status error and block = false; an
\* exception inside analyze_input_optimized gives the verdict ERROR; and
\* process_input returns 0 when the analysis failed
C4_FailSafe ==
    LET f == rr.faults
        reads == \/ rr.argv.source = "stdin"
                 \/ rr.argv.file_given
        failed == \/ f.import_fails
                  \/ (reads /\ f.read_fails)
                  \/ (reads /\ ~IsBlank(rr.content) /\ f.analysis_raises)
    IN  /\ (rr.ran /\ rr.argv.mode # "(missing)")
           => /\ rr.result.outcome = "return"
              /\ failed => rr.result = Returned(0, "error", "None", FALSE)
        /\ (last.op = "analyze_input_optimized" /\ last.error_occurred)
           => (last.verdict = "ERROR" /\ last.rc = 0)

\* C5: each of the four bypass variables, set to 1, true or yes in any letter
\* case, makes check_bypass_conditions return true, process_event answer
\* bypassed and analyze_input_optimized return BYPASS; no other value does
C5_BypassVariables ==
    LET requested == \E v \in BypassVars : Lower(environ[v]) \in TruthyValues
    IN  /\ bypass_check.called => (bypass_check.returned <=> requested)
        /\ bridge.events = 1 => (bridge.result.status = "bypassed" <=> requested)
        /\ (last.op = "analyze_input_optimized" /\ last.caller = "direct")
           => (last.verdict = "BYPASS" <=> requested)

\* C6: two calls of analyze_input_optimized with the same input, the same
\* weights and the same pattern set return the same verdict: when a call
\* starts from the weights and patterns its predecessor started from, with the
\* same content, and both end with a severity verdict, the verdicts are equal
C6_SameVerdict ==
    [][(/\ last.op = "analyze_input_optimized"
        /\ last'.calls = last.calls + 1
        /\ last'.content = last.content
        /\ last'.start = last.start
        /\ {last.verdict, last'.verdict} \subseteq {"CRITICAL", "HIGH", "INFO", "NONE"})
       => last'.verdict = last.verdict]_vars

\* C7: every weight a scan can read lies in [0, 1]: the background weights,
\* the weights of the learning cache, and the per-severity and per-pattern
\* weights loaded from the weights file
C7_WeightsInRange ==
    LET InRange(w) == 0 <= w /\ w <= One
        Values(d) == {d[k] : k \in DOMAIN d}
    IN  proc \in {"unified_quality_hook", "session"}
        => /\ \A w \in Values(self.background_weights) : InRange(w)
           /\ \A i \in DOMAIN self.learning_cache : InRange(self.learning_cache[i].weight)
           /\ \A w \in Values(Get(self.learning_weights, "pattern_confidence", << >>)) : InRange(w)
           /\ \A w \in Values(Get(self.learning_weights, "pattern_specific", << >>)) : InRange(w)

C9_StabilityState ==
    stability.entered
    => /\ ~stability.background_learning_enabled
       /\ ~stability.pattern_generation_enabled
       /\ stability.total_budget = 5000
       /\ stability.learning_queue = 0
       /\ stability.learning_cache = 0
       /\ stability.metrics_buffer = 0
       /\ stability.data_buffer = 0

C12_BuiltInPatterns ==
    /\ [](( /\ rr.ran
            /\ rr.result.status \in {"passed", "passed_with_warnings", "blocked"}
            /\ rr.config \in {"missing", "unreadable", "malformed", "no_sections"}
            /\ UltraCriticalPatterns \cap RuleMatches(rr.content) # {})
          => rr.result.severity = "CRITICAL")
    /\ [][( /\ pc = "fallback" /\ pc' = "finally"
            /\ ~self.config_exists
            /\ UltraCriticalPatterns \cap MatchIgnoreCase(frame.content) # {})
          => frame'.verdict = "CRITICAL"]_vars

\* C13: a pattern whose regular expression does not compile is skipped and
\* the other patterns are still evaluated: the finding of
\* SeverityAnalyzer.analyze is the finding obtained from the same rules with
\* the patterns that do not compile removed
C13_InvalidPatternSkipped ==
    LET valid(rules) == SelectSeq(rules, LAMBDA p : Compiles(p))
        cleaned == [severity \in DOMAIN rr.analysis_rules |-> valid(rr.analysis_rules[severity])]
        expected == analyze(cleaned, rr.content)
    IN  (rr.ran /\ rr.result.status \in {"passed", "passed_with_warnings", "blocked"})
        => /\ rr.result.severity = expected.severity
           /\ rr.result.pattern = expected.pattern

\* the rules start with a CRITICAL pattern that does not compile, and the
\* CRITICAL pattern after it was reported
C13_Witness ==
    /\ rr.ran
    /\ rr.config = "with_invalid_regex"
    /\ ~Compiles(rr.analysis_rules["CRITICAL"][1])
    /\ rr.result.severity = "CRITICAL"
    /\ rr.result.pattern = rr.analysis_rules["CRITICAL"][2]

\* C14: process_event returns block = true exactly when the hook process was
\* started and ended with return code 1 or 2; a bypass, a tool without a
\* hook, a missing script, empty content, a timeout, another return code and
\* a failure to start all give block = false; the status is blocked exactly
\* when block is true
C14_BlockOnlyOnHookVerdict ==
    LET started == /\ ~bridge.bypass_enabled
                   /\ bridge.tool \in {"Edit", "Bash"}
                   /\ bridge.script_exists
                   /\ ~IsBlank(bridge.content)
    IN  bridge.events = 1
        => /\ bridge.result.block <=> (started /\ bridge.child \in {"rc1", "rc2"})
           /\ bridge.result.status = "blocked" <=> bridge.result.block

\* the hook process ended with return code 2 and the event was blocked
C14_Witness ==
    /\ bridge.events = 1
    /\ ~bridge.bypass_enabled
    /\ bridge.child = "rc2"
    /\ bridge.result = [status |-> "blocked", block |-> TRUE]

\* C15: with no bypass variable set, a call of process_input returns 2 when
\* the analyzer classifies its input CRITICAL and 0 otherwise, whatever
\* happened on the UnifiedQualityHook instance before the call; calls in
\* which the hook itself raises are left aside
C15_HookReturnCode ==
    (/\ last.op = "analyze_input_optimized"
     /\ last.caller = "process_input"
     /\ last.hook # "raises"
     /\ environ = NoEnv)
    => (last.rc = IF last.verdict = "CRITICAL" THEN 2 ELSE 0)

\* the pending tasks of one learning tier, oldest first
TierTasks(queue, tier) == SelectSeq(queue, LAMBDA task : task.tier = tier)

\* C16: when analyze_input_optimized enqueues a learning task after a tiered
\* verdict and the tier of the task already has as many pending tasks as its
\* max_queue_size (ULTRA_CRITICAL 5, CRITICAL_FAST 20, HIGH_NORMAL 50), the
\* oldest pending task of that tier is evicted and the new task is stored
\* behind the others, and the pending tasks of the other tiers are the same
\* before and after.
C16_EvictOldestAtCapacity ==
    [][(/\ pc = "tiered"
        /\ frame'.verdict \in {"CRITICAL", "HIGH"}
        /\ self.background_learning_enabled
        /\ Len(TierTasks(self.learning_queue, LearningTier(frame'.verdict)))
              = tiered_learning_config[LearningTier(frame'.verdict)].max_queue_size)
       => LET tier == LearningTier(frame'.verdict)
              new == [type |-> "pattern_update", pattern |-> "tiered_pattern",
                      severity |-> frame'.verdict, confidence |-> One,
                      timestamp |-> now, tier |-> tier]
          IN  /\ TierTasks(self'.learning_queue, tier)
                    = Tail(TierTasks(self.learning_queue, tier)) \o <<new>>
              /\ \A other \in DOMAIN tiered_learning_config \ {tier} :
                    TierTasks(self'.learning_queue, other) = TierTasks(self.learning_queue, other)
      ]_vars

\* C17: whatever analyze calls have been made, one at a time, on an engine,
\* its learning queue holds at most 5 pending tasks of tier ULTRA_CRITICAL, at
\* most 20 of tier CRITICAL_FAST and at most 50 of tier HIGH_NORMAL.
C17_PendingTasksBounded ==
    self # NoAnalyzer
    => \A tier \in DOMAIN tiered_learning_config :
          Len(TierTasks(self.learning_queue, tier)) <= tiered_learning_config[tier].max_queue_size

\* a call that found an INFO pattern has returned while 50 tasks of tier
\* HIGH_NORMAL, one from each of 50 earlier calls, are pending
C17_Witness ==
    /\ self # NoAnalyzer /\ pc = "idle"
    /\ last.verdict = "INFO" /\ last.calls > 50
    /\ Len(TierTasks(self.learning_queue, "HIGH_NORMAL")) = 50

\* C18: when the queue processing of a call applies learning tasks, each
\* applied task (pattern, confidence, tier) whose confidence is at or above
\* the floor of its tier (0.95, 0.85, 0.70) sets the weight of its pattern to
\* (1 - eta) * current_weight + eta * confidence, eta being 0.001, 0.005 or
\* 0.01 for ULTRA_CRITICAL, CRITICAL_FAST or HIGH_NORMAL and current_weight 1.0
\* for a pattern without an entry; a task below the floor changes nothing; the
\* weights of all other patterns stay as they were.
C18_WeightedAverage ==
    [][(/\ self # NoAnalyzer /\ self' # NoAnalyzer
        /\ pc \in {"ultrafast", "fallback"}
        /\ self'.background_updates > self.background_updates)
       => LET applied == self'.background_updates - self.background_updates
              tasks == SelectSeq(self.learning_queue, LAMBDA task : task.type = "pattern_update")
              eta(tier) == CASE tier = "ULTRA_CRITICAL" -> 1
                             [] tier = "CRITICAL_FAST"  -> 5
                             [] OTHER                   -> 10
              floor(tier) == CASE tier = "ULTRA_CRITICAL" -> (95 * One) \div 100
                               [] tier = "CRITICAL_FAST"  -> (85 * One) \div 100
                               [] OTHER                   -> (70 * One) \div 100
              update(weights, task) ==
                  IF task.confidence < floor(task.tier) THEN weights
                  ELSE [p \in DOMAIN weights \cup {task.pattern} |->
                           IF p = task.pattern
                           THEN ((1000 - eta(task.tier)) * Get(weights, p, One)
                                 + eta(task.tier) * task.confidence) \div 1000
                           ELSE weights[p]]
              after[i \in 0..applied] ==
                  IF i = 0 THEN self.background_weights ELSE update(after[i - 1], tasks[i])
          IN  self'.background_weights = after[applied]
      ]_vars

\* tasks have been applied for two patterns: the weight of debug_output has
\* moved from 1.0 towards the observed 0.72 at the rate 0.01, the weight of
\* tiered_pattern was created
C18_Witness ==
    /\ self # NoAnalyzer
    /\ self.background_updates >= 2
    /\ DOMAIN self.background_weights = {"tiered_pattern", "debug_output"}
    /\ self.background_weights["debug_output"] = (990 * One + 10 * ((72 * One) \div 100)) \div 1000
    /\ self.background_weights["tiered_pattern"] = One

\* C19: a step that applies learning tasks at a time that is older than the
\* last_updated recorded for a pattern (the time of the update last applied
\* to it) leaves the weight of that pattern as it was.
C19_NewerUpdatesOnly ==
    [][(/\ self # NoAnalyzer /\ self' # NoAnalyzer
        /\ pc \in {"ultrafast", "fallback"})
       => \A i \in DOMAIN self.learning_cache :
             LET pattern == self.learning_cache[i].key[2]
             IN  (/\ self.learning_cache[i].last_updated > now
                  /\ pattern \in DOMAIN self.background_weights
                  /\ pattern \in DOMAIN self'.background_weights)
                 => self'.background_weights[pattern] = self.background_weights[pattern]
      ]_vars

\* C20: the learned weights (background_weights) of an engine are created,
\* changed or removed only by a step in which the queue processing applies a
\* dequeued learning task; a feedback call, a recovery strategy, a clearing of
\* the caches and the rest of an analysis leave them as they were.
C20_OnlyLearnerWrites ==
    [][(/\ self # NoAnalyzer /\ self' # NoAnalyzer
        /\ self'.background_weights # self.background_weights)
       => (/\ pc \in {"ultrafast", "fallback"}
           /\ self'.background_updates > self.background_updates)
      ]_vars

\* C21: when a call of analyze_input_optimized starts, without a bypass
\* variable, on an engine that holds a validated generated pattern, and the
\* input matches that pattern and no built-in pattern, the call returns the
\* severity of a generated pattern that matches the input.
C21_GeneratedPatternUsed ==
    (/\ last.op = "analyze_input_optimized"
     /\ ~EngineBypass(environ)
     /\ MatchIgnoreCase(last.content) = {}
     /\ \E id \in DOMAIN last.start.generated_patterns :
           /\ last.start.generated_patterns[id].validation_status = "validated"
           /\ last.content \in VariantMatches(last.start.generated_patterns[id].pattern))
    => \E id \in DOMAIN last.start.generated_patterns :
          /\ last.content \in VariantMatches(last.start.generated_patterns[id].pattern)
          /\ last.verdict = last.start.generated_patterns[id].severity

\* C22: when all three checks of validate_pattern_runtime have run, the
\* candidate is reported valid exactly when it compiles and passes at least one
\* of the effectiveness check and the false-positive check
C22_ValidExactlyWhenCompiledAndOneCheck ==
    (/\ last.op = "validate_pattern_runtime"
     /\ "validation_results" \in DOMAIN last.result
     /\ DOMAIN last.result.validation_results = {"regex", "effectiveness", "false_positive"})
    => (last.result.valid
        <=> /\ last.result.validation_results["regex"].compile_success
            /\ \/ last.result.validation_results["effectiveness"].effectiveness_acceptable
               \/ last.result.validation_results["false_positive"].fp_rate_acceptable)

\* C23: for an input longer than the size threshold, the verdict the fallback
\* engine computes on the reduced scan view equals the verdict it computes on
\* the full input
C23_ReducedViewSameVerdict ==
    (/\ last.op = "_fallback_analyze_with_background_learning"
     /\ last.doc.length > size_threshold)
    => last.verdict = FallbackVerdict(self, Searchable(last.doc))

\* C24: a call of analyze_input_optimized whose elapsed time has exceeded the
\* total budget while no verdict has been produced yet returns TIMEOUT
C24_TimeoutWhenOverBudget ==
    [][(/\ pc \in {"ultrafast", "fallback"}
        /\ frame.verdict = ""
        /\ frame.elapsed > self.tier_constraints["TOTAL_BUDGET"]
        /\ pc' = "finally")
       => frame'.verdict = "TIMEOUT"]_vars

\* C25: with QUALITYGATE_DISABLED=1 in the environment, a run of qg_runner.main
\* that meets no fault reports status bypassed with block false and returns 0,
\* whatever the input
C25_RunnerBypassed ==
    (/\ proc = "qg_runner" /\ rr.ran
     /\ environ["QUALITYGATE_DISABLED"] = <<"1">>
     /\ rr.argv.mode # "(missing)"
     /\ rr.faults = [import_fails |-> FALSE, read_fails |-> FALSE, analysis_raises |-> FALSE]
     /\ rr.argv.source = "stdin")
    => (/\ rr.result.status = "bypassed"
        /\ ~rr.result.block
        /\ rr.result.code = 0)

\* C26: a run of qg_runner.main whose finding is HIGH reports status
\* passed_with_warnings, severity HIGH, block false, and returns 0
C26_HighPassedWithWarnings ==
    (/\ proc = "qg_runner" /\ rr.ran
     /\ rr.result.outcome = "return"
     /\ rr.result.severity = "HIGH")
    => (/\ rr.result.status = "passed_with_warnings"
        /\ ~rr.result.block
        /\ rr.result.code = 0)

\* C27: wherever a feedback call can be made, adapt_learning_from_feedback with
\* the kind false_positive leaves the named pattern, whichever it is, with 0.9
\* times its weight (1.0 when none is stored) and counts one improvement, which
\* is when it returns true
C27_FalsePositiveScalesEveryPattern ==
    (/\ proc = "learner" /\ pc = "idle"
     /\ self.adaptive_improvements < MaxFeedback)
    => \A pattern_id \in FeedbackPatterns :
          LET after == adapt_learning_from_feedback(self, pattern_id, "false_positive")
          IN  /\ pattern_id \in DOMAIN after.background_weights
              /\ after.background_weights[pattern_id] =
                    (Get(self.background_weights, pattern_id, One) * adjustment_factor_tenths) \div 10
              /\ after.adaptive_improvements = self.adaptive_improvements + 1

\* C28: in the ultra-fast path, on an engine without learned weights, a stage
\* whose pattern list holds a matching pattern with a weighted confidence at or
\* above the threshold ends with the verdict of the stage, also when an earlier
\* matching pattern of the list is below the threshold
C28_UltrafastScanContinues ==
    [][(/\ pc = "ultrafast"
        /\ self.learning_queue = << >>
        /\ self.background_weights = << >>
        /\ self.learning_cache = << >>
        /\ LET severity_patterns == Get(self.ultrafast_patterns_memory, frame.stage, << >>)
           IN  \E k \in DOMAIN severity_patterns :
                  /\ severity_patterns[k] \in MatchCaseSensitive(frame.content)
                  /\ _apply_lightweight_weights(self, severity_patterns[k], frame.stage)
                        >= Threshold(frame.stage))
       => (pc' = "finally" /\ frame'.verdict = frame.stage)]_vars

\* C29: a step of analyze_input_optimized that produces a CRITICAL, HIGH or
\* INFO verdict while background learning is enabled leaves, as the newest task
\* of the learning queue, a pattern update that names a pattern matching the
\* input, with the severity of the verdict and a confidence at or above the
\* threshold of that severity
C29_VerdictEnqueuesMatchedPattern ==
    [][(/\ pc \in {"tiered", "ultrafast", "fallback"}
        /\ pc' \in {"generate", "finally"}
        /\ frame'.verdict \in {"CRITICAL", "HIGH", "INFO"}
        /\ self.background_learning_enabled)
       => (/\ self'.learning_queue # << >>
           /\ LET task == self'.learning_queue[Len(self'.learning_queue)]
              IN  /\ task.type = "pattern_update"
                  /\ task.pattern \in MatchIgnoreCase(frame.content)
                  /\ task.severity = frame'.verdict
                  /\ task.confidence >= Threshold(frame'.verdict))]_vars

\* C30: no step taken between the start and the return of
\* analyze_input_optimized removes a task from the learning queue or changes a
\* learned weight: the queue afterwards begins with the queue before
C30_AnalyzeOnlyAppends ==
    [][(pc \in {"step0", "tiered", "generate", "rule", "ultrafast", "fallback"})
       => (/\ self'.background_weights = self.background_weights
           /\ Len(self'.learning_queue) >= Len(self.learning_queue)
           /\ SubSeq(self'.learning_queue, 1, Len(self.learning_queue)) = self.learning_queue)]_vars

\* C31: while the engine keeps serving calls with the learner enabled, a
\* learning task waiting in the queue is eventually taken from it: from any
\* state in which the queue holds a task, a later state is reached in which
\* one more task has been applied or the queue has been emptied, whichever
\* engine the later inputs are decided by
C31_EnqueuedEventuallyDequeued ==
    \A k \in 0 .. 1 :
        (/\ self.background_learning_enabled
         /\ self.learning_queue # << >>
         /\ self.background_updates = k)
        ~> (\/ self.background_updates > k
            \/ self.learning_queue = << >>
            \/ ~self.background_learning_enabled)

\* C32: a step of the ultra-fast core searches only patterns that have a
\* matcher compiled at startup (an entry of ultrafast_compiled_regex); a
\* pattern of the memory that has none is not searched
C32_OnlyPrecompiledSearched ==
    [][(pc = "ultrafast" /\ self.ultrafast_enabled)
       => LET severity_patterns == Get(self.ultrafast_patterns_memory, frame.stage, << >>)
          IN  \A k \in 1 .. UltrafastTested(self, frame.content, frame.stage) :
                  severity_patterns[k] \in self.ultrafast_compiled_regex]_vars

\* C33: no step of an analyze call reads the pattern configuration file: the
\* configuration cache, which is filled by reading that file, is filled by no
\* step of a call, whichever engine decides the input
C33_AnalyzeReadsNoFile ==
    [][(pc # "idle") => (self'.patterns_cache => self.patterns_cache)]_vars

\* C34: when the memory-pressure optimization or the reduce_cache_size
\* strategy has shrunk the learning cache, no removed entry was updated more
\* recently than an entry that was kept
C34_ShrinkKeepsMostRecent ==
    (/\ last.op \in {"_execute_adaptive_optimizations", "_execute_recovery_strategy"}
     /\ Len(self.learning_cache) < Len(last.start.learning_cache))
    => \A r \in Range(last.start.learning_cache) \ Range(self.learning_cache),
          e \in Range(self.learning_cache) :
              r.last_updated <= e.last_updated

C36_FreshGeneratedId ==
    [][(pc = "generate" /\ frame'.generation = "stored")
       => ms' \notin DOMAIN self.generated_patterns]_vars

\* C37: no step of an analyze call that ends in BYPASS changes the learning
\* queue, the learned weights, the learning cache, the feature-enable flags,
\* the tier budgets or the recovery history
C37_BypassLeavesAnalysisState ==
    [][((pc = "step0" /\ frame'.verdict = "BYPASS") \/ (pc = "finally" /\ frame.verdict = "BYPASS"))
       => LET AnalysisState(s) ==
                  <<s.learning_queue, s.learning_weights, s.background_weights, s.learning_cache,
                    s.learning_enabled, s.ultrafast_enabled, s.background_learning_enabled,
                    s.realtime_integration_enabled, s.adaptive_optimization_enabled,
                    s.pattern_generation_enabled, s.tier_constraints, s.recovery_history>>
          IN  AnalysisState(self') = AnalysisState(self)]_vars

\* C38: every call of analyze_with_cache returns the pattern that
\* fast_pattern_match returns for the same content and the same pattern list
C38_CacheTransparent ==
    (last.op = "analyze_with_cache")
        => last.result = fast_pattern_match(last.content, last.patterns)

\* C39: whenever the ultra-fast core is enabled, its CRITICAL pattern memory
\* and its bank of compiled expressions hold the four ULTRA_CRITICAL patterns
C39_EnabledCoreIsLoaded ==
    self.ultrafast_enabled
        => /\ UltraCriticalPatterns \subseteq Range(Get(self.ultrafast_patterns_memory, "CRITICAL", << >>))
           /\ UltraCriticalPatterns \subseteq self.ultrafast_compiled_regex

\* C40: under every interleaving of the capacity tests, appends and
\* dequeues of concurrent callers, a learning queue of ULTRA_CRITICAL tasks
\* never holds more than 5 tasks, and no task is applied twice
C40_CapacityAndSingleApplication ==
    (proc = "threads")
        => /\ Len(self.learning_queue) <= tiered_learning_config["ULTRA_CRITICAL"].max_queue_size
           /\ \A i, j \in DOMAIN last.applied : last.applied[i] = last.applied[j] => i = j

=============================================================================
